---- MODULE Spec2Model ----
(***************************************************************************)
(* Content visibility and engagement pipeline of the post backend:  the    *)
(* document store (users, posts, comments, saved posts, notifications),    *)
(* the request handlers that mutate it, the engagement scorer, the viewer  *)
(* filter and the cursor-paginated listings.                               *)
(*                                                                         *)
(* Identifiers.  Every document gets its _id from one increasing counter   *)
(* (nextId), as ObjectIds generated by one server process increase.        *)
(* createdAt is the clock at creation; the clock of the model is coarse    *)
(* (hours), so documents with the same model createdAt are ordered by      *)
(* their _id, as their millisecond timestamps would order them.            *)
(*                                                                         *)
(* Handlers.  A handler that only issues one store query is one action.    *)
(* A handler that reads and then writes is split at its awaits: each       *)
(* store call is one step of an in-flight request (reqs), so that two      *)
(* requests interleave exactly where the event loop lets them.             *)
(***************************************************************************)
EXTENDS Integers, Sequences, FiniteSets, TLC

----------------------------------------------------------------------------
(* Bounds of the model *)

MaxInflight == 2     \* requests in flight at once
MaxRequests == 3     \* requests started in one behaviour
MaxTicks == 1        \* clock ticks in one behaviour
MaxLimit == 2        \* largest page size a paging client asks for

(* Program constants *)

TickHours == 12      \* hours per clock tick (granularity of the model's clock)
GetPostComments10 == 10   \* getPost: .limit(10)
DefaultLimit == 15   \* const { cursor, limit = 15 } = req.query
LimitCap == 50       \* Math.min(parseInt(limit), 50)

----------------------------------------------------------------------------
(* Users, reaction kinds *)

Users == {"alice", "bob", "root"}
Admins == {"root"}
NoUser == "none"

\* validReactions: the five emoji keys of reactions / reactionUsers
Kinds == {"heart", "thumbsup", "joy", "wow", "hands"}

\* the kinds the requests of the model use
ReqKinds == {"heart", "wow"}

NoId == 0

----------------------------------------------------------------------------
(* Sequence helpers *)

Range(s) == {s[i] : i \in DOMAIN s}

Contains(s, x) == \E i \in DOMAIN s : s[i] = x

\* Array.prototype.filter(x => x !== u): every occurrence goes, as with $pull
Pull(s, u) == SelectSeq(s, LAMBDA x : x # u)

RECURSIVE SumOver(_, _)
SumOver(f, S) ==
  IF S = {} THEN 0
  ELSE LET x == CHOOSE y \in S : TRUE IN f[x] + SumOver(f, S \ {x})

----------------------------------------------------------------------------
(* Text.  A string is the sequence of its characters. *)

UpperCase == <<"A","B","C","D","E","F","G","H","I","J","K","L","M",
               "N","O","P","Q","R","S","T","U","V","W","X","Y","Z">>
LowerCase == <<"a","b","c","d","e","f","g","h","i","j","k","l","m",
               "n","o","p","q","r","s","t","u","v","w","x","y","z">>
Digits == {"0","1","2","3","4","5","6","7","8","9"}

\* String.prototype.toLowerCase, one character
LowerChar(c) ==
  IF \E i \in DOMAIN UpperCase : UpperCase[i] = c
    THEN LowerCase[CHOOSE i \in DOMAIN UpperCase : UpperCase[i] = c]
    ELSE c

\* String.prototype.toLowerCase
ToLowerCase(s) == [i \in DOMAIN s |-> LowerChar(s[i])]

\* String.prototype.includes
Includes(s, part) ==
  \E i \in 0..(Len(s) - Len(part)) : SubSeq(s, i + 1, i + Len(part)) = part

\* content.trim() === ''
IsBlank(s) == \A i \in DOMAIN s : s[i] = " "

\* the regular expression class \w
IsWordChar(c) ==
  \/ \E i \in DOMAIN UpperCase : UpperCase[i] = c \/ LowerCase[i] = c
  \/ c \in Digits
  \/ c = "_"

\* the length of the run of \w characters of s that starts at position j
RECURSIVE WordRun(_, _)
WordRun(s, j) ==
  IF j <= Len(s) /\ IsWordChar(s[j]) THEN 1 + WordRun(s, j + 1) ELSE 0

\* the matches of /mark(\w+)/g in s from position i on, lowercased
RECURSIVE Tagged(_, _, _)
Tagged(s, i, mark) ==
  IF i > Len(s) THEN {}
  ELSE IF s[i] = mark /\ WordRun(s, i + 1) > 0
    THEN {ToLowerCase(SubSeq(s, i + 1, i + WordRun(s, i + 1)))}
           \cup Tagged(s, i + 1 + WordRun(s, i + 1), mark)
    ELSE Tagged(s, i + 1, mark)

\* postUtils.extractHashtags: /#(\w+)/g, lowercased, without duplicates
extractHashtags(content) == Tagged(content, 1, "#")

\* the texts the requests of the model send
TextOk == <<"o","k">>
TextBoo == <<"a"," ","B","o","O"," ","#","T","v">>
TextTag == <<"#","t","v"," ","@","b","o","b">>
TextBad == <<"I","l","l","e","g","a","l">>
TextBlank == <<" ">>

KeywordBoo == <<"b","o","o">>
KeywordTv == <<"T","v"," ">>

TagTv == <<"t","v">>

\* usernames are stored lowercase; the model's user ids are the usernames
Username(u) ==
  CASE u = "alice" -> <<"a","l","i","c","e">>
    [] u = "bob" -> <<"b","o","b">>
    [] OTHER -> <<"r","o","o","t">>

\* moderationService.checkProhibitedContent
prohibitedKeywords ==
  {<<"o","f","f","e","n","s","i","v","e">>,
   <<"i","n","a","p","p","r","o","p","r","i","a","t","e">>,
   <<"o","b","s","c","e","n","e">>,
   <<"i","l","l","e","g","a","l">>}

checkProhibitedContent(content) ==
  \E keyword \in prohibitedKeywords : Includes(ToLowerCase(content), keyword)

\* moderationService.autoModerateContent: every detection has severity medium
autoModerateContent(content, user) ==
  IF ~user.autoModeration THEN FALSE ELSE checkProhibitedContent(content)

\* the visibility createPost, addComment and addReply give new content
InitialVisibility(content, user) ==
  IF user.autoModeration /\ content # <<>> /\ autoModerateContent(content, user)
    THEN "moderated" ELSE "public"

\* notificationService.processMentions: the users named by /@(\w+)/g
MentionedUsers(content) ==
  {u \in Users : Username(u) \in Tagged(content, 1, "@")}

----------------------------------------------------------------------------
(* Engagement scorer *)

\* 1000 * exp(-ageInHours / 24), rounded, for ages that are multiples of 12 h
DecayPermille(ageInHours) ==
  LET k == ageInHours \div TickHours
      table == <<1000, 607, 368, 223, 135, 82, 50, 30, 18, 11, 7, 4, 2, 2, 1, 1>>
  IN IF k + 1 \in DOMAIN table THEN table[k + 1] ELSE 0

\* A document as a query returns it: the post record and the set of selected
\* paths.  A path that the projection left out reads as undefined.
AllPaths == {"reactions", "commentCount", "shareCount", "impressionCount", "createdAt"}

FullDoc(post) == [rec |-> post, paths |-> AllPaths]

ProjectDoc(post, paths) == [rec |-> post, paths |-> paths]

\* (this.x || 0)
OrZero(doc, path) == IF path \in doc.paths THEN doc.rec[path] ELSE 0

\* the scorer with every input weighted 1
UpdateEngagementScoreFlat(doc, t) ==
  LET reactionTotal ==
        IF "reactions" \in doc.paths THEN SumOver(doc.rec.reactions, Kinds) ELSE 0
      base == reactionTotal * 10
              + OrZero(doc, "commentCount") * 10
              + OrZero(doc, "shareCount") * 10
              + OrZero(doc, "impressionCount") * 10
  IN IF "createdAt" \in doc.paths
       THEN [nan |-> FALSE, val |-> base * DecayPermille(t - doc.rec.createdAt)]
       ELSE [nan |-> TRUE, val |-> 0]

\* postSchema.methods.updateEngagementScore, in units of 1/10000:
\*   (reactionTotal*1 + commentCount*2 + shareCount*3 + impressionCount*0.1) * decay
\* Date.now() - undefined is NaN, and so is everything computed from it.
UpdateEngagementScore(doc, t) ==
  LET reactionTotal ==
        IF "reactions" \in doc.paths THEN SumOver(doc.rec.reactions, Kinds) ELSE 0
      base == reactionTotal * 10
              + OrZero(doc, "commentCount") * 20
              + OrZero(doc, "shareCount") * 30
              + OrZero(doc, "impressionCount") * 1
  IN IF "createdAt" \in doc.paths
       THEN [nan |-> FALSE, val |-> base * DecayPermille(t - doc.rec.createdAt)]
       ELSE [nan |-> TRUE, val |-> 0]

\* the scorer's value for the whole post at time t
ScoreOf(post, t) == UpdateEngagementScore(FullDoc(post), t).val

----------------------------------------------------------------------------
(* The store and the requests *)

VARIABLES
  users,          \* userId -> account: blockedUsers, keywordFilters, settings, activityMetrics
  posts,          \* _id -> post document
  comments,       \* _id -> comment document
  savedPosts,     \* _id -> SavedPost document
  notifications,  \* _id -> notification document
  nextId,         \* the next _id
  now,            \* the clock, in hours
  reqs,           \* slot -> request in flight
  started,        \* requests started so far
  resp,           \* the last response sent
  walk            \* the pages a client got by passing each nextCursor back

vars ==
  <<users, posts, comments, savedPosts, notifications, nextId, now, reqs, started,
    resp, walk>>

store == <<users, posts, comments, savedPosts, notifications, nextId>>

ZeroReactions == [k \in Kinds |-> 0]
NoReactors == [k \in Kinds |-> <<>>]

\* userSchema defaults
NewUser(isAdmin) ==
  [isAdmin |-> isAdmin,
   blockedUsers |-> <<>>,
   keywordFilters |-> <<>>,
   contentFiltering |-> TRUE,
   showSensitiveContent |-> FALSE,
   autoModeration |-> TRUE,
   notificationPreferences |->
     [reactions |-> TRUE, comments |-> TRUE, mentions |-> TRUE, system |-> TRUE],
   totalPosts |-> 0,
   totalComments |-> 0,
   totalReactionsGiven |-> 0,
   totalReactionsReceived |-> 0]

\* postSchema defaults
NewPost(userId, content, contentWarning, hashtags, visibility, t) ==
  [userId |-> userId,
   content |-> content,
   contentWarning |-> contentWarning,
   hashtags |-> hashtags,
   visibility |-> visibility,
   reactions |-> ZeroReactions,
   reactionUsers |-> NoReactors,
   commentCount |-> 0,
   shareCount |-> 0,
   impressionCount |-> 0,
   engagementScore |-> 0,
   saveCount |-> 0,
   createdAt |-> t]

\* commentSchema defaults
NewComment(postId, userId, parentId, content, visibility, t) ==
  [postId |-> postId,
   userId |-> userId,
   parentId |-> parentId,
   content |-> content,
   visibility |-> visibility,
   reactions |-> ZeroReactions,
   reactionUsers |-> NoReactors,
   createdAt |-> t]

\* notificationSchema defaults
NewNotification(userId, type, t) ==
  [userId |-> userId, type |-> type, read |-> FALSE, createdAt |-> t]

----------------------------------------------------------------------------
(* Queries *)

Min(a, b) == IF a < b THEN a ELSE b

\* .limit(n)
Take(s, n) == SubSeq(s, 1, Min(n, Len(s)))

\* a sorts before b under .sort({createdAt: -1})
Newer(coll, a, b) ==
  \/ coll[a].createdAt > coll[b].createdAt
  \/ coll[a].createdAt = coll[b].createdAt /\ a > b

\* the documents of S under .sort({createdAt: -1})
RECURSIVE ByCreatedDesc(_, _)
ByCreatedDesc(coll, S) ==
  IF S = {} THEN <<>>
  ELSE LET m == CHOOSE x \in S : \A y \in S \ {x} : Newer(coll, x, y)
       IN <<m>> \o ByCreatedDesc(coll, S \ {m})

\* user.blockedUsers.some(id => id.toString() === userId.toString())
Blocks(viewer, userId) == Contains(users[viewer].blockedUsers, userId)

----------------------------------------------------------------------------
(* Requests in flight and responses *)

Slots == 1..MaxInflight

NoScore == [nan |-> FALSE, val |-> 0]

Idle ==
  [op |-> "idle", pc |-> "idle", user |-> NoUser, target |-> NoId, kind |-> "none",
   owner |-> NoUser, postId |-> NoId, created |-> NoId, found |-> FALSE,
   content |-> <<>>, vis |-> "public", notify |-> FALSE,
   score |-> NoScore, alone |-> TRUE]

NoResp ==
  [op |-> "none", status |-> 0, user |-> NoUser, target |-> NoId, postId |-> NoId,
   author |-> NoUser, tag |-> <<>>, alone |-> TRUE, cursor |-> NoId, limit |-> 0, kept |-> <<>>,
   items |-> <<>>,
   hasMore |-> FALSE, nextCursor |-> NoId, option |-> "none"]

Response(op, status, user, target, alone) ==
  [NoResp EXCEPT !.op = op, !.status = status, !.user = user, !.target = target,
                 !.alone = alone]

\* no page was asked for yet
NoWalk ==
  [op |-> "none", user |-> NoUser, target |-> NoId, author |-> NoUser, tag |-> <<>>,
   limit |-> 0, pages |-> 0, cursor |-> NoId, open |-> FALSE, wasOpen |-> TRUE,
   clean |-> TRUE, first |-> {}, prev |-> <<>>, page |-> <<>>, seen |-> <<>>]

Active(r) == reqs[r].op # "idle"

NoneActive == \A r \in Slots : ~Active(r)

CanStart == started < MaxRequests /\ \E r \in Slots : ~Active(r)

FreeSlot == CHOOSE r \in Slots : ~Active(r) /\ \A q \in Slots : q < r => Active(q)

\* a step of another request falls into the lifetime of request q
Disturbed(q) == IF Active(q) THEN [reqs[q] EXCEPT !.alone = FALSE] ELSE reqs[q]

\* the handler passed its checks and waits for its first write
Begin(rec) ==
  /\ reqs' = [q \in Slots |-> IF q = FreeSlot THEN rec ELSE Disturbed(q)]
  /\ started' = started + 1
  /\ resp' = NoResp
  /\ UNCHANGED walk

\* the handler answers from its first read (an early return)
Reject(op, status, user, target) ==
  /\ reqs' = [q \in Slots |-> Disturbed(q)]
  /\ started' = started + 1
  /\ resp' = Response(op, status, user, target, TRUE)
  /\ UNCHANGED walk

\* the handler moves on to its next await
Continue(r, rec) ==
  /\ reqs' = [q \in Slots |-> IF q = r THEN rec ELSE Disturbed(q)]
  /\ resp' = NoResp
  /\ UNCHANGED <<started, walk>>

\* the handler sends its response
Finish(r, status) ==
  /\ reqs' = [q \in Slots |-> IF q = r THEN Idle ELSE Disturbed(q)]
  /\ resp' = [Response(reqs[r].op, status, reqs[r].user, reqs[r].target, reqs[r].alone)
                EXCEPT !.postId = reqs[r].postId]
  /\ UNCHANGED <<started, walk>>

At(r, op, pc) == reqs[r].op = op /\ reqs[r].pc = pc

\* an _id that names no document
ReqIds(coll) == DOMAIN coll \cup {nextId}

\* a reaction type that validReactions does not include
ReqKindsAny == ReqKinds \cup {"shrug"}

----------------------------------------------------------------------------
(* Store operations shared by the handlers *)

\* Model.findByIdAndUpdate(id, {$inc: {field: d}}): nothing happens without the document
IncField(coll, id, field, d) ==
  IF id \in DOMAIN coll THEN [coll EXCEPT ![id][field] = @ + d] ELSE coll

\* {$inc: {reactions.kind: 1}, $push: {reactionUsers.kind: u}}, one atomic update
PushReaction(coll, id, kind, u) ==
  IF id \in DOMAIN coll
    THEN [coll EXCEPT ![id].reactions[kind] = @ + 1,
                      ![id].reactionUsers[kind] = Append(@, u)]
    ELSE coll

\* {$inc: {reactions.kind: -1}, $pull: {reactionUsers.kind: u}}, one atomic update
PullReaction(coll, id, kind, u) ==
  IF id \in DOMAIN coll
    THEN [coll EXCEPT ![id].reactions[kind] = @ - 1,
                      ![id].reactionUsers[kind] = Pull(@, u)]
    ELSE coll

\* the two User.findByIdAndUpdate calls of a reaction handler, in source order
ReactionMetrics(actor, owner, d) ==
  LET given == IncField(users, actor, "totalReactionsGiven", d)
  IN IncField(given, owner, "totalReactionsReceived", d)

\* notificationService.createNotification: the preference key is type + "s"
NotificationsEnabled(userId, type) ==
  LET prefs == users[userId].notificationPreferences
      key == CASE type = "reaction" -> "reactions"
               [] type = "comment" -> "comments"
               [] type = "mention" -> "mentions"
               [] type = "reply" -> "replys"
               [] OTHER -> "systems"
  IN IF key \in DOMAIN prefs THEN prefs[key] # FALSE ELSE TRUE

\* the notification a handler asks for, unless the preference switches it off
Wanted(userId, type) ==
  IF NotificationsEnabled(userId, type)
    THEN <<[userId |-> userId, type |-> type]>> ELSE <<>>

\* create*Notification: nobody is notified of their own action
WantedUnlessSelf(actor, owner, type) ==
  IF actor = owner THEN <<>> ELSE Wanted(owner, type)

RECURSIVE SetToSeq(_)
SetToSeq(S) ==
  IF S = {} THEN <<>>
  ELSE LET x == CHOOSE y \in S : TRUE IN <<x>> \o SetToSeq(S \ {x})

RECURSIVE ConcatAll(_)
ConcatAll(ss) == IF ss = <<>> THEN <<>> ELSE Head(ss) \o ConcatAll(Tail(ss))

\* processMentions: one mention notification per mentioned user other than the actor
WantedMentions(actor, content) ==
  LET named == SetToSeq(MentionedUsers(content))
  IN ConcatAll([i \in DOMAIN named |-> WantedUnlessSelf(actor, named[i], "mention")])

\* Notification.create for each notification of the list, in order, from _id base
NotificationsWith(list, base) ==
  [id \in DOMAIN notifications \cup (base..(base + Len(list) - 1)) |->
     IF id \in DOMAIN notifications THEN notifications[id]
     ELSE NewNotification(list[id - base + 1].userId, list[id - base + 1].type, now)]

InsertNotifications(list) ==
  /\ notifications' = NotificationsWith(list, nextId)
  /\ nextId' = nextId + Len(list)

\* document.save() of a loaded post whose engagementScore was assigned:
\* a NaN does not cast to Number, so validation fails and nothing is written;
\* a document that is gone cannot be saved either.
CanSaveScore(p, score) == ~score.nan /\ p \in DOMAIN posts

SaveScore(p, score) == [posts EXCEPT ![p].engagementScore = score.val]

----------------------------------------------------------------------------
(* postController.addReaction *)

AddReactionFind(u, p, k) ==
  /\ CanStart
  /\ IF k \notin Kinds THEN Reject("addReaction", 400, u, p)
     ELSE IF p \notin DOMAIN posts THEN Reject("addReaction", 404, u, p)
     ELSE IF posts[p].visibility # "public" THEN Reject("addReaction", 403, u, p)
     ELSE IF Contains(posts[p].reactionUsers[k], u) THEN Reject("addReaction", 400, u, p)
     ELSE Begin([Idle EXCEPT !.op = "addReaction", !.pc = "update", !.user = u,
                             !.target = p, !.postId = p, !.kind = k,
                             !.owner = posts[p].userId])
  /\ UNCHANGED <<store, now>>

AddReactionUpdate(r) ==
  /\ At(r, "addReaction", "update")
  /\ posts' = PushReaction(posts, reqs[r].target, reqs[r].kind, reqs[r].user)
  /\ Continue(r, [reqs[r] EXCEPT !.pc = "metrics"])
  /\ UNCHANGED <<users, comments, savedPosts, notifications, nextId, now>>

AddReactionMetrics(r) ==
  /\ At(r, "addReaction", "metrics")
  /\ users' = ReactionMetrics(reqs[r].user, reqs[r].owner, 1)
  /\ Continue(r, [reqs[r] EXCEPT !.pc = "load"])
  /\ UNCHANGED <<posts, comments, savedPosts, notifications, nextId, now>>

\* Post.findById(id, 'reactions') and updatedPost.updateEngagementScore()
AddReactionLoad(r) ==
  /\ At(r, "addReaction", "load")
  /\ IF reqs[r].target \in DOMAIN posts
       THEN Continue(r, [reqs[r] EXCEPT
              !.pc = "save",
              !.score = UpdateEngagementScore(
                          ProjectDoc(posts[reqs[r].target], {"reactions"}), now)])
       ELSE Finish(r, 500)
  /\ UNCHANGED <<store, now>>

AddReactionSave(r) ==
  /\ At(r, "addReaction", "save")
  /\ IF CanSaveScore(reqs[r].target, reqs[r].score)
       THEN /\ posts' = SaveScore(reqs[r].target, reqs[r].score)
            /\ Continue(r, [reqs[r] EXCEPT !.pc = "notify"])
       ELSE /\ Finish(r, 500)
            /\ UNCHANGED posts
  /\ UNCHANGED <<users, comments, savedPosts, notifications, nextId, now>>

----------------------------------------------------------------------------
(* postController.removeReaction *)

RemoveReactionFind(u, p, k) ==
  /\ CanStart
  /\ IF k \notin Kinds THEN Reject("removeReaction", 400, u, p)
     ELSE IF p \notin DOMAIN posts THEN Reject("removeReaction", 404, u, p)
     ELSE IF ~Contains(posts[p].reactionUsers[k], u) THEN Reject("removeReaction", 400, u, p)
     ELSE Begin([Idle EXCEPT !.op = "removeReaction", !.pc = "update", !.user = u,
                             !.target = p, !.postId = p, !.kind = k,
                             !.owner = posts[p].userId])
  /\ UNCHANGED <<store, now>>

RemoveReactionUpdate(r) ==
  /\ At(r, "removeReaction", "update")
  /\ posts' = PullReaction(posts, reqs[r].target, reqs[r].kind, reqs[r].user)
  /\ Continue(r, [reqs[r] EXCEPT !.pc = "metrics"])
  /\ UNCHANGED <<users, comments, savedPosts, notifications, nextId, now>>

RemoveReactionMetrics(r) ==
  /\ At(r, "removeReaction", "metrics")
  /\ users' = ReactionMetrics(reqs[r].user, reqs[r].owner, -1)
  /\ Continue(r, [reqs[r] EXCEPT !.pc = "load"])
  /\ UNCHANGED <<posts, comments, savedPosts, notifications, nextId, now>>

RemoveReactionLoad(r) ==
  /\ At(r, "removeReaction", "load")
  /\ IF reqs[r].target \in DOMAIN posts
       THEN Continue(r, [reqs[r] EXCEPT
              !.pc = "save",
              !.score = UpdateEngagementScore(
                          ProjectDoc(posts[reqs[r].target], {"reactions"}), now)])
       ELSE Finish(r, 500)
  /\ UNCHANGED <<store, now>>

RemoveReactionSave(r) ==
  /\ At(r, "removeReaction", "save")
  /\ IF CanSaveScore(reqs[r].target, reqs[r].score)
       THEN /\ posts' = SaveScore(reqs[r].target, reqs[r].score)
            /\ Finish(r, 200)
       ELSE /\ Finish(r, 500)
            /\ UNCHANGED posts
  /\ UNCHANGED <<users, comments, savedPosts, notifications, nextId, now>>

----------------------------------------------------------------------------
(* commentController.addCommentReaction / removeCommentReaction *)

AddCommentReactionFind(u, c, k) ==
  /\ CanStart
  /\ IF k \notin Kinds THEN Reject("addCommentReaction", 400, u, c)
     ELSE IF c \notin DOMAIN comments THEN Reject("addCommentReaction", 404, u, c)
     ELSE IF comments[c].visibility # "public" THEN Reject("addCommentReaction", 403, u, c)
     ELSE IF Contains(comments[c].reactionUsers[k], u)
       THEN Reject("addCommentReaction", 400, u, c)
     ELSE Begin([Idle EXCEPT !.op = "addCommentReaction", !.pc = "update", !.user = u,
                             !.target = c, !.kind = k, !.owner = comments[c].userId])
  /\ UNCHANGED <<store, now>>

AddCommentReactionUpdate(r) ==
  /\ At(r, "addCommentReaction", "update")
  /\ comments' = PushReaction(comments, reqs[r].target, reqs[r].kind, reqs[r].user)
  /\ Continue(r, [reqs[r] EXCEPT !.pc = "metrics"])
  /\ UNCHANGED <<users, posts, savedPosts, notifications, nextId, now>>

AddCommentReactionMetrics(r) ==
  /\ At(r, "addCommentReaction", "metrics")
  /\ users' = ReactionMetrics(reqs[r].user, reqs[r].owner, 1)
  /\ Continue(r, [reqs[r] EXCEPT !.pc = "load"])
  /\ UNCHANGED <<posts, comments, savedPosts, notifications, nextId, now>>

\* Comment.findById(id, 'reactions'); its result is first used after the notification
AddCommentReactionLoad(r) ==
  /\ At(r, "addCommentReaction", "load")
  /\ Continue(r, [reqs[r] EXCEPT !.pc = "notify",
                                 !.found = reqs[r].target \in DOMAIN comments])
  /\ UNCHANGED <<store, now>>

RemoveCommentReactionFind(u, c, k) ==
  /\ CanStart
  /\ IF k \notin Kinds THEN Reject("removeCommentReaction", 400, u, c)
     ELSE IF c \notin DOMAIN comments THEN Reject("removeCommentReaction", 404, u, c)
     ELSE IF ~Contains(comments[c].reactionUsers[k], u)
       THEN Reject("removeCommentReaction", 400, u, c)
     ELSE Begin([Idle EXCEPT !.op = "removeCommentReaction", !.pc = "update", !.user = u,
                             !.target = c, !.kind = k, !.owner = comments[c].userId])
  /\ UNCHANGED <<store, now>>

RemoveCommentReactionUpdate(r) ==
  /\ At(r, "removeCommentReaction", "update")
  /\ comments' = PullReaction(comments, reqs[r].target, reqs[r].kind, reqs[r].user)
  /\ Continue(r, [reqs[r] EXCEPT !.pc = "metrics"])
  /\ UNCHANGED <<users, posts, savedPosts, notifications, nextId, now>>

RemoveCommentReactionMetrics(r) ==
  /\ At(r, "removeCommentReaction", "metrics")
  /\ users' = ReactionMetrics(reqs[r].user, reqs[r].owner, -1)
  /\ Continue(r, [reqs[r] EXCEPT !.pc = "load"])
  /\ UNCHANGED <<posts, comments, savedPosts, notifications, nextId, now>>

RemoveCommentReactionLoad(r) ==
  /\ At(r, "removeCommentReaction", "load")
  /\ Finish(r, IF reqs[r].target \in DOMAIN comments THEN 200 ELSE 500)
  /\ UNCHANGED <<store, now>>

----------------------------------------------------------------------------
(* commentController.addComment *)

Insert(coll, id, doc) ==
  [x \in DOMAIN coll \cup {id} |-> IF x = id THEN doc ELSE coll[x]]

AddCommentFind(u, p, content) ==
  /\ CanStart
  /\ IF IsBlank(content) THEN Reject("addComment", 400, u, p)
     ELSE IF p \notin DOMAIN posts THEN Reject("addComment", 404, u, p)
     ELSE IF posts[p].visibility # "public" THEN Reject("addComment", 403, u, p)
     ELSE Begin([Idle EXCEPT !.op = "addComment", !.pc = "create", !.user = u,
                             !.target = p, !.postId = p, !.owner = posts[p].userId,
                             !.content = content,
                             !.vis = InitialVisibility(content, users[u])])
  /\ UNCHANGED <<store, now>>

AddCommentCreate(r) ==
  /\ At(r, "addComment", "create")
  /\ comments' = Insert(comments, nextId,
                        NewComment(reqs[r].postId, reqs[r].user, NoId,
                                   reqs[r].content, reqs[r].vis, now))
  /\ nextId' = nextId + 1
  /\ Continue(r, [reqs[r] EXCEPT !.pc = "count", !.created = nextId])
  /\ UNCHANGED <<users, posts, savedPosts, notifications, now>>

AddCommentCount(r) ==
  /\ At(r, "addComment", "count")
  /\ posts' = IncField(posts, reqs[r].postId, "commentCount", 1)
  /\ Continue(r, [reqs[r] EXCEPT !.pc = "metrics"])
  /\ UNCHANGED <<users, comments, savedPosts, notifications, nextId, now>>

AddCommentMetrics(r) ==
  /\ At(r, "addComment", "metrics")
  /\ users' = IncField(users, reqs[r].user, "totalComments", 1)
  /\ Continue(r, [reqs[r] EXCEPT !.pc = "load"])
  /\ UNCHANGED <<posts, comments, savedPosts, notifications, nextId, now>>

\* Post.findById(postId) and updatedPost.updateEngagementScore()
LoadPostScore(r) ==
  IF reqs[r].postId \in DOMAIN posts
    THEN Continue(r, [reqs[r] EXCEPT
           !.pc = "save",
           !.score = UpdateEngagementScore(FullDoc(posts[reqs[r].postId]), now)])
    ELSE Finish(r, 500)

AddCommentLoad(r) ==
  /\ At(r, "addComment", "load")
  /\ LoadPostScore(r)
  /\ UNCHANGED <<store, now>>

AddCommentSave(r) ==
  /\ At(r, "addComment", "save")
  /\ IF CanSaveScore(reqs[r].postId, reqs[r].score)
       THEN /\ posts' = SaveScore(reqs[r].postId, reqs[r].score)
            /\ Continue(r, [reqs[r] EXCEPT !.pc = "notify"])
       ELSE /\ Finish(r, 500)
            /\ UNCHANGED posts
  /\ UNCHANGED <<users, comments, savedPosts, notifications, nextId, now>>

----------------------------------------------------------------------------
(* commentController.addReply *)

AddReplyFind(u, c, content) ==
  /\ CanStart
  /\ IF IsBlank(content) THEN Reject("addReply", 400, u, c)
     ELSE IF c \notin DOMAIN comments THEN Reject("addReply", 404, u, c)
     ELSE IF comments[c].visibility # "public" THEN Reject("addReply", 403, u, c)
     ELSE Begin([Idle EXCEPT !.op = "addReply", !.pc = "post", !.user = u,
                             !.target = c, !.postId = comments[c].postId,
                             !.owner = comments[c].userId, !.content = content,
                             !.vis = InitialVisibility(content, users[u])])
  /\ UNCHANGED <<store, now>>

\* Post.findById(parentComment.postId): the post must exist and be public
AddReplyPost(r) ==
  /\ At(r, "addReply", "post")
  /\ IF reqs[r].postId \in DOMAIN posts /\ posts[reqs[r].postId].visibility = "public"
       THEN Continue(r, [reqs[r] EXCEPT !.pc = "create"])
       ELSE Finish(r, 403)
  /\ UNCHANGED <<store, now>>

AddReplyCreate(r) ==
  /\ At(r, "addReply", "create")
  /\ comments' = Insert(comments, nextId,
                        NewComment(reqs[r].postId, reqs[r].user, reqs[r].target,
                                   reqs[r].content, reqs[r].vis, now))
  /\ nextId' = nextId + 1
  /\ Continue(r, [reqs[r] EXCEPT !.pc = "count", !.created = nextId])
  /\ UNCHANGED <<users, posts, savedPosts, notifications, now>>

AddReplyCount(r) ==
  /\ At(r, "addReply", "count")
  /\ posts' = IncField(posts, reqs[r].postId, "commentCount", 1)
  /\ Continue(r, [reqs[r] EXCEPT !.pc = "metrics"])
  /\ UNCHANGED <<users, comments, savedPosts, notifications, nextId, now>>

AddReplyMetrics(r) ==
  /\ At(r, "addReply", "metrics")
  /\ users' = IncField(users, reqs[r].user, "totalComments", 1)
  /\ Continue(r, [reqs[r] EXCEPT !.pc = "load"])
  /\ UNCHANGED <<posts, comments, savedPosts, notifications, nextId, now>>

AddReplyLoad(r) ==
  /\ At(r, "addReply", "load")
  /\ LoadPostScore(r)
  /\ UNCHANGED <<store, now>>

AddReplySave(r) ==
  /\ At(r, "addReply", "save")
  /\ IF CanSaveScore(reqs[r].postId, reqs[r].score)
       THEN /\ posts' = SaveScore(reqs[r].postId, reqs[r].score)
            /\ Continue(r, [reqs[r] EXCEPT !.pc = "notify"])
       ELSE /\ Finish(r, 500)
            /\ UNCHANGED posts
  /\ UNCHANGED <<users, comments, savedPosts, notifications, nextId, now>>

----------------------------------------------------------------------------
(* commentController.deleteComment *)

DeleteCommentFind(u, c) ==
  /\ CanStart
  /\ IF c \notin DOMAIN comments THEN Reject("deleteComment", 404, u, c)
     ELSE IF comments[c].userId # u /\ ~users[u].isAdmin
       THEN Reject("deleteComment", 403, u, c)
     ELSE Begin([Idle EXCEPT !.op = "deleteComment", !.pc = "delete", !.user = u,
                             !.target = c, !.postId = comments[c].postId,
                             !.owner = comments[c].userId])
  /\ UNCHANGED <<store, now>>

\* comment.visibility = 'deleted'; comment.save()
DeleteCommentSave(r) ==
  /\ At(r, "deleteComment", "delete")
  /\ IF reqs[r].target \in DOMAIN comments
       THEN /\ comments' = [comments EXCEPT ![reqs[r].target].visibility = "deleted"]
            /\ Continue(r, [reqs[r] EXCEPT !.pc = "count"])
       ELSE /\ Finish(r, 500)
            /\ UNCHANGED comments
  /\ UNCHANGED <<users, posts, savedPosts, notifications, nextId, now>>

DeleteCommentCount(r) ==
  /\ At(r, "deleteComment", "count")
  /\ posts' = IncField(posts, reqs[r].postId, "commentCount", -1)
  /\ Continue(r, [reqs[r] EXCEPT !.pc = "metrics"])
  /\ UNCHANGED <<users, comments, savedPosts, notifications, nextId, now>>

\* the count of the requesting user goes down, author or admin
DeleteCommentMetrics(r) ==
  /\ At(r, "deleteComment", "metrics")
  /\ users' = IncField(users, reqs[r].user, "totalComments", -1)
  /\ Continue(r, [reqs[r] EXCEPT !.pc = "load"])
  /\ UNCHANGED <<posts, comments, savedPosts, notifications, nextId, now>>

DeleteCommentLoad(r) ==
  /\ At(r, "deleteComment", "load")
  /\ LoadPostScore(r)
  /\ UNCHANGED <<store, now>>

DeleteCommentScore(r) ==
  /\ At(r, "deleteComment", "save")
  /\ IF CanSaveScore(reqs[r].postId, reqs[r].score)
       THEN /\ posts' = SaveScore(reqs[r].postId, reqs[r].score)
            /\ Finish(r, 200)
       ELSE /\ Finish(r, 500)
            /\ UNCHANGED posts
  /\ UNCHANGED <<users, comments, savedPosts, notifications, nextId, now>>

----------------------------------------------------------------------------
(* adminController.deleteComment (hard delete) *)

AdminDeleteCommentFind(a, c, notify) ==
  /\ CanStart
  /\ IF c \notin DOMAIN comments THEN Reject("adminDeleteComment", 404, a, c)
     ELSE Begin([Idle EXCEPT !.op = "adminDeleteComment", !.pc = "transaction",
                             !.user = a, !.target = c, !.postId = comments[c].postId,
                             !.owner = comments[c].userId, !.notify = notify])
  /\ UNCHANGED <<store, now>>

\* one transaction: the replies and the comment go, commentCount goes down by one
AdminDeleteCommentTransaction(r) ==
  /\ At(r, "adminDeleteComment", "transaction")
  /\ comments' = [c \in {x \in DOMAIN comments :
                           x # reqs[r].target /\ comments[x].parentId # reqs[r].target}
                    |-> comments[c]]
  /\ posts' = IncField(posts, reqs[r].postId, "commentCount", -1)
  /\ IF reqs[r].notify THEN Continue(r, [reqs[r] EXCEPT !.pc = "notify"])
     ELSE Finish(r, 200)
  /\ UNCHANGED <<users, savedPosts, notifications, nextId, now>>

----------------------------------------------------------------------------
(* postController.getPost *)

\* the post is shown to everybody while public, else to its author and to admins
MayView(viewer, post) ==
  \/ post.visibility = "public"
  \/ viewer # NoUser /\ (post.userId = viewer \/ users[viewer].isAdmin)

GetPostFind(viewer, p) ==
  /\ CanStart
  /\ IF p \notin DOMAIN posts THEN Reject("getPost", 404, viewer, p)
     ELSE IF ~MayView(viewer, posts[p]) THEN Reject("getPost", 403, viewer, p)
     ELSE Begin([Idle EXCEPT !.op = "getPost", !.pc = "impression", !.user = viewer,
                             !.target = p, !.postId = p])
  /\ UNCHANGED <<store, now>>

GetPostImpression(r) ==
  /\ At(r, "getPost", "impression")
  /\ posts' = IncField(posts, reqs[r].target, "impressionCount", 1)
  /\ Continue(r, [reqs[r] EXCEPT !.pc = "comments"])
  /\ UNCHANGED <<users, comments, savedPosts, notifications, nextId, now>>

\* the ten newest public top-level comments, without those of users the viewer blocks
GetPostComments(r) ==
  /\ At(r, "getPost", "comments")
  /\ LET found == Take(ByCreatedDesc(comments,
                         {c \in DOMAIN comments :
                            /\ comments[c].postId = reqs[r].target
                            /\ comments[c].parentId = NoId
                            /\ comments[c].visibility = "public"}), GetPostComments10)
         shown == IF reqs[r].user = NoUser THEN found
                  ELSE SelectSeq(found, LAMBDA c : ~Blocks(reqs[r].user, comments[c].userId))
     IN /\ reqs' = [q \in Slots |-> IF q = r THEN Idle ELSE Disturbed(q)]
        /\ resp' = [Response("getPost", 200, reqs[r].user, reqs[r].target, reqs[r].alone)
                      EXCEPT !.postId = reqs[r].target, !.kept = found, !.items = shown]
  /\ UNCHANGED <<store, now, started, walk>>

----------------------------------------------------------------------------
(* The notification a handler sends last, then its response *)

\* create*Notification and processMentions as the handlers call them;
\* adminController.createSystemNotification inserts without a preference check
Notices(q) ==
  CASE q.op \in {"addReaction", "addCommentReaction"} ->
         WantedUnlessSelf(q.user, q.owner, "reaction")
    [] q.op = "addComment" ->
         WantedUnlessSelf(q.user, q.owner, "comment") \o WantedMentions(q.user, q.content)
    [] q.op = "addReply" ->
         WantedUnlessSelf(q.user, q.owner, "reply") \o WantedMentions(q.user, q.content)
    [] OTHER -> <<[userId |-> q.owner, type |-> "system"]>>

Answer(q) ==
  CASE q.op \in {"addComment", "addReply"} -> 201
    [] q.op = "addCommentReaction" -> IF q.found THEN 200 ELSE 500
    [] OTHER -> 200

Notify(r) ==
  /\ Active(r) /\ reqs[r].pc = "notify"
  /\ InsertNotifications(Notices(reqs[r]))
  /\ Finish(r, Answer(reqs[r]))
  /\ UNCHANGED <<users, posts, comments, savedPosts, now>>

----------------------------------------------------------------------------
(* postUtils: the viewer filter *)

\* containsSensitiveContent without the lowercasing of the content
containsSensitiveContentExact(content, keywords) ==
  IF keywords = <<>> THEN FALSE
  ELSE \E i \in DOMAIN keywords : Includes(content, ToLowerCase(keywords[i]))

\* containsSensitiveContent: some keyword, lowercased, occurs in the lowercased content
containsSensitiveContent(content, keywords) ==
  IF keywords = <<>> THEN FALSE
  ELSE LET contentLower == ToLowerCase(content)
       IN \E i \in DOMAIN keywords : Includes(contentLower, ToLowerCase(keywords[i]))

\* the callback of posts.filter in filterPostsForUser, for an authenticated user
Shown(user, post) ==
  IF Blocks(user, post.userId) THEN FALSE
  ELSE IF /\ users[user].contentFiltering
          /\ post.contentWarning
          /\ ~users[user].showSensitiveContent THEN FALSE
  ELSE IF /\ users[user].contentFiltering
          /\ users[user].keywordFilters # <<>>
          /\ containsSensitiveContent(post.content, users[user].keywordFilters) THEN FALSE
  ELSE post.visibility = "public"

\* filterPostsForUser(posts, user); list holds the _ids of the posts
filterPostsForUser(list, user) ==
  IF user = NoUser THEN SelectSeq(list, LAMBDA p : posts[p].visibility = "public")
  ELSE SelectSeq(list, LAMBDA p : Shown(user, posts[p]))

\* user ? filterPostsForUser(posts, user) : posts
Filtered(list, user) == IF user # NoUser THEN filterPostsForUser(list, user) ELSE list

----------------------------------------------------------------------------
(* Queries and pages of the listings *)

\* Math.min(parseInt(limit), 50)
ParsedLimit(limit) == Min(limit, LimitCap)

\* cursor.limit(n) of the driver: 0 is no limit
Limit(s, n) == IF n = 0 THEN s ELSE Take(s, n)

\* a query that leaves out the deleted documents only
IsNotDeleted(doc) == doc.visibility # "deleted"

\* { visibility: 'public' }
IsPublic(doc) == doc.visibility = "public"

\* a cursor string that is no ObjectId (not 24 hexadecimal digits)
MalformedId == -1

\* mongoose casts the value of { _id: { $lt: cursor } } and the argument of
\* findById(cursor) to ObjectId when the query runs; a string that is no
\* ObjectId raises a CastError, which the handler's catch turns into a 500
CastsToObjectId(cursor) == cursor # MalformedId

\* the cursor with $lte in place of $lt
AfterCursorInclusive(cursor, id) == cursor = NoId \/ id <= cursor

\* if (cursor) query._id = { $lt: cursor }
AfterCursor(cursor, id) == cursor = NoId \/ id < cursor

\* if (user && user.blockedUsers.length > 0) query.userId = { $nin: user.blockedUsers }
NotIn(user, userId) ==
  \/ user = NoUser
  \/ users[user].blockedUsers = <<>>
  \/ ~Blocks(user, userId)

\* const hasMore = posts.length > parsedLimit
HasMore(fetched, n) == Len(fetched) > n

\* if (hasMore) posts.pop()
Popped(fetched, n) ==
  IF HasMore(fetched, n) THEN SubSeq(fetched, 1, Len(fetched) - 1) ELSE fetched

\* filtered.length > 0 ? filtered[filtered.length - 1]._id : null
LastId(items) == IF Len(items) > 0 THEN items[Len(items)] ELSE NoId

\* find(query).sort({createdAt: -1}).limit(n + 1), then hasMore and pop
PageOf(coll, S, n) ==
  LET fetched == Limit(ByCreatedDesc(coll, S), n + 1)
  IN [kept |-> Popped(fetched, n), hasMore |-> HasMore(fetched, n)]

\* a sorts before b under .sort({engagementScore: -1}); equal scores in _id order
Hotter(a, b) ==
  \/ posts[a].engagementScore > posts[b].engagementScore
  \/ posts[a].engagementScore = posts[b].engagementScore /\ a < b

RECURSIVE ByScoreDesc(_)
ByScoreDesc(S) ==
  IF S = {} THEN <<>>
  ELSE LET m == CHOOSE x \in S : \A y \in S \ {x} : Hotter(x, y)
       IN <<m>> \o ByScoreDesc(S \ {m})

\* what a listing handler answers
Out(kept, items, hasMore, nextCursor) ==
  [status |-> 200, kept |-> kept, items |-> items, hasMore |-> hasMore,
   nextCursor |-> nextCursor]

\* an early return of a listing handler
Fail(status) ==
  [status |-> status, kept |-> <<>>, items |-> <<>>, hasMore |-> FALSE,
   nextCursor |-> NoId]

\* the query of getPersonalizedFeed
FeedQuery(user, cursor) ==
  {p \in DOMAIN posts :
     IsPublic(posts[p]) /\ AfterCursor(cursor, p) /\ NotIn(user, posts[p].userId)}

\* postController.getPersonalizedFeed
FeedPage(user, cursor, limit) ==
  IF ~CastsToObjectId(cursor) THEN Fail(500) ELSE
  LET page == PageOf(posts, FeedQuery(user, cursor), ParsedLimit(limit))
      filteredPosts == Filtered(page.kept, user)
  IN Out(page.kept, filteredPosts, page.hasMore, LastId(filteredPosts))

\* the query of getPostsByHashtag
HashtagQuery(tag, cursor) ==
  {p \in DOMAIN posts :
     IsPublic(posts[p]) /\ ToLowerCase(tag) \in posts[p].hashtags /\ AfterCursor(cursor, p)}

\* postController.getPostsByHashtag
HashtagPage(user, tag, cursor, limit) ==
  IF ~CastsToObjectId(cursor) THEN Fail(500) ELSE
  LET page == PageOf(posts, HashtagQuery(tag, cursor), ParsedLimit(limit))
      filteredPosts == Filtered(page.kept, user)
  IN Out(page.kept, filteredPosts, page.hasMore, LastId(filteredPosts))

\* the query of getUserPosts
UserPostsQuery(userId, cursor) ==
  {p \in DOMAIN posts :
     posts[p].userId = userId /\ IsPublic(posts[p]) /\ AfterCursor(cursor, p)}

\* postController.getUserPosts
UserPostsPage(user, userId, cursor, limit) ==
  IF userId \notin DOMAIN users THEN Fail(404)
  ELSE IF user # NoUser /\ (Blocks(user, userId) \/ Blocks(userId, user)) THEN Fail(403)
  ELSE IF ~CastsToObjectId(cursor) THEN Fail(500)
  ELSE LET page == PageOf(posts, UserPostsQuery(userId, cursor), ParsedLimit(limit))
           filteredPosts == Filtered(page.kept, user)
       IN Out(page.kept, filteredPosts, page.hasMore, LastId(filteredPosts))

\* the categories of the Category collection (slug, isActive, hashtags)
SlugShows == <<"s","h","o","w","s">>
Categories == {[slug |-> SlugShows, isActive |-> TRUE, hashtags |-> {TagTv}]}

\* the query of getCategoryPosts
CategoryQuery(category, cursor) ==
  {p \in DOMAIN posts :
     /\ IsPublic(posts[p])
     /\ (category.hashtags # {} => posts[p].hashtags \cap category.hashtags # {})
     /\ AfterCursor(cursor, p)}

\* searchController.getCategoryPosts; its route runs no auth middleware, so
\* req.user is undefined whoever asks; limit is not capped
CategoryPage(slug, cursor, limit) ==
  IF ~\E c \in Categories : c.slug = slug /\ c.isActive THEN Fail(404)
  ELSE IF ~CastsToObjectId(cursor) THEN Fail(500)
  ELSE LET category == CHOOSE c \in Categories : c.slug = slug /\ c.isActive
           page == PageOf(posts, CategoryQuery(category, cursor), limit)
           filteredPosts == Filtered(page.kept, NoUser)
       IN Out(page.kept, filteredPosts, page.hasMore, LastId(filteredPosts))

\* postController.getExploreContent: the newest floor(n/2) posts, then the
\* ceil(n/2) posts of highest engagementScore that are not among them
ExplorePage(user, category, cursor, limit) ==
  IF ~CastsToObjectId(cursor) THEN Fail(500) ELSE
  LET n == ParsedLimit(limit)
      half == (n + 1) \div 2
      query == {p \in DOMAIN posts :
                  /\ IsPublic(posts[p])
                  /\ (category # <<>> => category \in posts[p].hashtags)
                  /\ AfterCursor(cursor, p)
                  /\ NotIn(user, posts[p].userId)}
      recentPosts == Limit(ByCreatedDesc(posts, query), n \div 2)
      fetched == Limit(ByScoreDesc(query), half + 1)
      engagementPosts == Popped(fetched, half)
      combined == recentPosts
                    \o SelectSeq(engagementPosts, LAMBDA p : ~Contains(recentPosts, p))
      filteredPosts == Filtered(combined, user)
  IN Out(combined, filteredPosts, HasMore(fetched, half), LastId(filteredPosts))

\* postController.getTrendingPosts: any timeframe other than '7d' is 24 hours;
\* the response carries no pagination
TrendingPage(user, timeframe, category, limit) ==
  LET startTime == IF timeframe = "7d" THEN now - 7 * 24 ELSE now - 24
      query == {p \in DOMAIN posts :
                  /\ IsPublic(posts[p])
                  /\ posts[p].createdAt >= startTime
                  /\ (category # <<>> => category \in posts[p].hashtags)}
      found == Limit(ByScoreDesc(query), ParsedLimit(limit))
  IN Out(found, Filtered(found, user), FALSE, NoId)

\* savedPostSchema
NewSavedPost(userId, postId, t) == [userId |-> userId, postId |-> postId, savedAt |-> t]

\* a sorts before b under .sort({savedAt: -1})
SavedLater(a, b) ==
  \/ savedPosts[a].savedAt > savedPosts[b].savedAt
  \/ savedPosts[a].savedAt = savedPosts[b].savedAt /\ a > b

RECURSIVE BySavedDesc(_)
BySavedDesc(S) ==
  IF S = {} THEN <<>>
  ELSE LET m == CHOOSE x \in S : \A y \in S \ {x} : SavedLater(x, y)
       IN <<m>> \o BySavedDesc(S \ {m})

\* the query of getSavedPosts: savedAt before that of the record the cursor names
SavedQuery(user, cursor) ==
  {s \in DOMAIN savedPosts :
     /\ savedPosts[s].userId = user
     /\ (cursor # NoId /\ cursor \in DOMAIN savedPosts => SavedLater(cursor, s))}

\* postController.getSavedPosts: a page of SavedPost records, then their posts
\* that are public, in the order of the records; the cursor names a record
SavedPage(user, cursor, limit) ==
  IF ~CastsToObjectId(cursor) THEN Fail(500) ELSE
  LET n == ParsedLimit(limit)
      fetched == Limit(BySavedDesc(SavedQuery(user, cursor)), n + 1)
      saved == Popped(fetched, n)
      postIds == [i \in DOMAIN saved |-> savedPosts[saved[i]].postId]
      orderedPosts == SelectSeq(postIds,
                        LAMBDA p : p \in DOMAIN posts /\ IsPublic(posts[p]))
  IN Out(saved, orderedPosts, HasMore(fetched, n), LastId(saved))

\* the words of s from position i on, lowercased
RECURSIVE Words(_, _)
Words(s, i) ==
  IF i > Len(s) THEN {}
  ELSE IF WordRun(s, i) > 0
    THEN {ToLowerCase(SubSeq(s, i, i + WordRun(s, i) - 1))} \cup Words(s, i + WordRun(s, i))
    ELSE Words(s, i + 1)

\* { $text: { $search: query } } over post_search_index (content, hashtags,
\* username): some term of the query is a word of the post, whatever the case
TextMatches(query, post) ==
  Words(query, 1) \cap
    (Words(post.content, 1) \cup post.hashtags \cup {Username(post.userId)}) # {}

\* searchController.searchPosts with searchService.searchPosts, sortBy 'recent':
\* the cursor is an offset; the route runs no auth middleware (user undefined)
SearchPage(q, cursor, limit) ==
  IF IsBlank(q) THEN Fail(400)
  ELSE LET sorted == ByCreatedDesc(posts, {p \in DOMAIN posts :
                                             /\ TextMatches(q, posts[p])
                                             /\ IsPublic(posts[p])
                                             /\ NotIn(NoUser, posts[p].userId)})
           results == Limit(SubSeq(sorted, cursor + 1, Len(sorted)), limit)
           hasMore == Len(results) = limit
       IN Out(results, results, hasMore,
              IF hasMore THEN cursor + Len(results) ELSE NoId)

\* comments.filter(c => !user.blockedUsers.some(...)) for an authenticated user
\* who blocks somebody
Unblocked(list, user) ==
  IF user # NoUser /\ users[user].blockedUsers # <<>>
    THEN SelectSeq(list, LAMBDA c : ~Blocks(user, comments[c].userId))
    ELSE list

\* the query of getComments
CommentsQuery(postId, cursor) ==
  {c \in DOMAIN comments :
     /\ comments[c].postId = postId
     /\ comments[c].parentId = NoId
     /\ IsPublic(comments[c])
     /\ AfterCursor(cursor, c)}

\* commentController.getComments
CommentsPage(user, postId, cursor, limit) ==
  IF postId \notin DOMAIN posts THEN Fail(404)
  ELSE IF ~CastsToObjectId(cursor) THEN Fail(500)
  ELSE LET page == PageOf(comments, CommentsQuery(postId, cursor), ParsedLimit(limit))
           filteredComments == Unblocked(page.kept, user)
       IN Out(page.kept, filteredComments, page.hasMore, LastId(filteredComments))

\* the documents of S under .sort({createdAt: 1})
RECURSIVE ByCreatedAsc(_, _)
ByCreatedAsc(coll, S) ==
  IF S = {} THEN <<>>
  ELSE LET m == CHOOSE x \in S : \A y \in S \ {x} : Newer(coll, y, x)
       IN <<m>> \o ByCreatedAsc(coll, S \ {m})

\* the query of getReplies
RepliesQuery(commentId, cursor) ==
  {c \in DOMAIN comments :
     comments[c].parentId = commentId /\ IsPublic(comments[c]) /\ AfterCursor(cursor, c)}

\* commentController.getReplies: oldest first, the cursor still { $lt: cursor }
RepliesPage(user, commentId, cursor, limit) ==
  IF commentId \notin DOMAIN comments THEN Fail(404)
  ELSE IF ~CastsToObjectId(cursor) THEN Fail(500)
  ELSE LET n == ParsedLimit(limit)
           fetched == Limit(ByCreatedAsc(comments, RepliesQuery(commentId, cursor)), n + 1)
           filteredReplies == Unblocked(Popped(fetched, n), user)
       IN Out(Popped(fetched, n), filteredReplies, HasMore(fetched, n),
              LastId(filteredReplies))

\* the query of getNotifications, read not given
NotificationsQuery(user, cursor) ==
  {x \in DOMAIN notifications :
     notifications[x].userId = user /\ AfterCursor(cursor, x)}

\* notificationController.getNotifications
NotificationsPage(user, cursor, limit) ==
  IF ~CastsToObjectId(cursor) THEN Fail(500) ELSE
  LET page == PageOf(notifications, NotificationsQuery(user, cursor), ParsedLimit(limit))
  IN Out(page.kept, page.kept, page.hasMore, LastId(page.kept))

----------------------------------------------------------------------------
(* The listing handlers as requests, and the client that pages through one *)

\* the request asks for the same listing as the pages of the walk so far
Follows(op, viewer, target, author, tag, limit) ==
  /\ walk.pages > 0
  /\ walk.op = op /\ walk.user = viewer /\ walk.target = target
  /\ walk.author = author /\ walk.tag = tag /\ walk.limit = limit

\* the cursors a client sends: none, or the nextCursor of its last page
Cursors(op, viewer, target, author, tag, limit) ==
  {NoId} \cup (IF Follows(op, viewer, target, author, tag, limit)
                 THEN {walk.cursor} ELSE {})

\* the walk after the answer out: one page longer when the request passed the
\* last nextCursor back (null is no cursor), begun anew by a request without cursor
Stepped(op, viewer, target, author, tag, cursor, limit, out) ==
  IF out.status # 200 THEN NoWalk
  ELSE IF Follows(op, viewer, target, author, tag, limit) /\ cursor = walk.cursor
    THEN [walk EXCEPT !.pages = @ + 1, !.cursor = out.nextCursor,
                      !.wasOpen = walk.wasOpen /\ walk.open, !.open = out.hasMore,
                      !.prev = walk.page, !.page = out.items,
                      !.seen = @ \o out.items]
  ELSE IF cursor = NoId
    THEN [NoWalk EXCEPT !.op = op, !.user = viewer, !.target = target,
                        !.author = author, !.tag = tag, !.limit = limit,
                        !.pages = 1, !.cursor = out.nextCursor, !.open = out.hasMore,
                        !.first = {p \in DOMAIN posts : IsPublic(posts[p])},
                        !.page = out.items, !.seen = out.items]
  ELSE NoWalk

\* a listing handler answers: it reads the store once and writes nothing;
\* option is the timeframe or sortBy of the request, where it has one
ServeOption(op, viewer, target, author, tag, cursor, limit, option, out) ==
  /\ CanStart /\ NoneActive
  /\ started' = started + 1
  /\ resp' = [NoResp EXCEPT !.op = op, !.status = out.status, !.user = viewer,
                            !.target = target, !.author = author, !.tag = tag,
                            !.cursor = cursor, !.limit = limit, !.kept = out.kept,
                            !.items = out.items, !.hasMore = out.hasMore,
                            !.nextCursor = out.nextCursor, !.option = option]
  /\ walk' = Stepped(op, viewer, target, author, tag, cursor, limit, out)
  /\ UNCHANGED <<store, now, reqs>>

Serve(op, viewer, target, author, tag, cursor, limit, out) ==
  ServeOption(op, viewer, target, author, tag, cursor, limit, "none", out)

getPersonalizedFeed(viewer, cursor, limit) ==
  Serve("feed", viewer, NoId, NoUser, <<>>, cursor, limit,
        FeedPage(viewer, cursor, limit))

getPostsByHashtag(viewer, tag, cursor, limit) ==
  Serve("hashtag", viewer, NoId, NoUser, tag, cursor, limit,
        HashtagPage(viewer, tag, cursor, limit))

getUserPosts(viewer, userId, cursor, limit) ==
  Serve("userPosts", viewer, NoId, userId, <<>>, cursor, limit,
        UserPostsPage(viewer, userId, cursor, limit))

getCategoryPosts(viewer, slug, cursor, limit) ==
  Serve("category", viewer, NoId, NoUser, slug, cursor, limit,
        CategoryPage(slug, cursor, limit))

getExploreContent(viewer, category, cursor, limit) ==
  Serve("explore", viewer, NoId, NoUser, category, cursor, limit,
        ExplorePage(viewer, category, cursor, limit))

getTrendingPosts(viewer, timeframe, category, limit) ==
  ServeOption("trending", viewer, NoId, NoUser, category, NoId, limit, timeframe,
              TrendingPage(viewer, timeframe, category, limit))

\* behind protect: the viewer is a user
getSavedPosts(viewer, cursor, limit) ==
  Serve("saved", viewer, NoId, NoUser, <<>>, cursor, limit,
        SavedPage(viewer, cursor, limit))

searchPosts(viewer, q, cursor, limit) ==
  Serve("search", viewer, NoId, NoUser, q, cursor, limit,
        SearchPage(q, cursor, limit))

getComments(viewer, postId, cursor, limit) ==
  Serve("comments", viewer, postId, NoUser, <<>>, cursor, limit,
        CommentsPage(viewer, postId, cursor, limit))

getReplies(viewer, commentId, cursor, limit) ==
  Serve("replies", viewer, commentId, NoUser, <<>>, cursor, limit,
        RepliesPage(viewer, commentId, cursor, limit))

\* behind protect: the viewer is a user
getNotifications(viewer, cursor, limit) ==
  Serve("notifications", viewer, NoId, NoUser, <<>>, cursor, limit,
        NotificationsPage(viewer, cursor, limit))

----------------------------------------------------------------------------
(* Handlers that change what the listings show, each served while no other
   request is in flight *)

\* the request is served and answered
Settle(op, status, user, target) ==
  /\ CanStart /\ NoneActive
  /\ started' = started + 1
  /\ resp' = Response(op, status, user, target, TRUE)
  /\ UNCHANGED <<reqs, now>>

\* the store changed under the paging client: by an insert at the head of the
\* listings, or otherwise
Dirtied == IF walk.pages = 0 THEN walk ELSE [walk EXCEPT !.clean = FALSE]

\* postController.createPost
createPost(u, content, contentWarning) ==
  IF IsBlank(content)
    THEN /\ Settle("createPost", 400, u, NoId)
         /\ UNCHANGED <<store, walk>>
    ELSE /\ Settle("createPost", 201, u, nextId)
         /\ posts' = Insert(posts, nextId,
                        NewPost(u, content, contentWarning, extractHashtags(content),
                                InitialVisibility(content, users[u]), now))
         /\ users' = IncField(users, u, "totalPosts", 1)
         /\ notifications' = NotificationsWith(WantedMentions(u, content), nextId + 1)
         /\ nextId' = nextId + 1 + Len(WantedMentions(u, content))
         /\ walk' = Dirtied
         /\ UNCHANGED <<comments, savedPosts>>

\* postController.deletePost: a soft delete
deletePost(u, p) ==
  IF p \notin DOMAIN posts
    THEN Settle("deletePost", 404, u, p) /\ UNCHANGED <<store, walk>>
  ELSE IF posts[p].userId # u /\ ~users[u].isAdmin
    THEN Settle("deletePost", 403, u, p) /\ UNCHANGED <<store, walk>>
  ELSE /\ Settle("deletePost", 200, u, p)
       /\ posts' = [posts EXCEPT ![p].visibility = "deleted"]
       /\ users' = IncField(users, u, "totalPosts", -1)
       /\ walk' = NoWalk
       /\ UNCHANGED <<comments, savedPosts, notifications, nextId>>

\* moderationService.moderatePost: the fields an action sets
Moderated(post, action) ==
  CASE action = "flag" -> [post EXCEPT !.contentWarning = TRUE]
    [] action = "remove" -> [post EXCEPT !.visibility = "moderated"]
    [] OTHER -> [post EXCEPT !.visibility = "public", !.contentWarning = FALSE]

\* moderationController.moderatePost, behind protect and isAdmin
moderatePost(admin, p, action) ==
  IF action \notin {"flag", "remove", "restore"}
    THEN Settle("moderatePost", 400, admin, p) /\ UNCHANGED <<store, walk>>
  ELSE IF p \notin DOMAIN posts
    THEN Settle("moderatePost", 404, admin, p) /\ UNCHANGED <<store, walk>>
  ELSE /\ Settle("moderatePost", 200, admin, p)
       /\ posts' = [posts EXCEPT ![p] = Moderated(@, action)]
       /\ InsertNotifications(IF action # "restore"
                                THEN Wanted(posts[p].userId, "system") ELSE <<>>)
       /\ walk' = NoWalk
       /\ UNCHANGED <<users, comments, savedPosts>>

\* blockUser without its check of the list
blockUserUnchecked(u, v) ==
  IF v \notin DOMAIN users
    THEN Settle("blockUser", 404, u, NoId) /\ UNCHANGED <<store, walk>>
  ELSE IF v = u
    THEN Settle("blockUser", 400, u, NoId) /\ UNCHANGED <<store, walk>>
  ELSE /\ Settle("blockUser", 200, u, NoId)
       /\ users' = [users EXCEPT ![u].blockedUsers = Append(@, v)]
       /\ walk' = NoWalk
       /\ UNCHANGED <<posts, comments, savedPosts, notifications, nextId>>

\* userController.blockUser
blockUser(u, v) ==
  IF v \notin DOMAIN users
    THEN Settle("blockUser", 404, u, NoId) /\ UNCHANGED <<store, walk>>
  ELSE IF v = u \/ Blocks(u, v)
    THEN Settle("blockUser", 400, u, NoId) /\ UNCHANGED <<store, walk>>
  ELSE /\ Settle("blockUser", 200, u, NoId)
       /\ users' = [users EXCEPT ![u].blockedUsers = Append(@, v)]
       /\ walk' = NoWalk
       /\ UNCHANGED <<posts, comments, savedPosts, notifications, nextId>>

\* userController.unblockUser
unblockUser(u, v) ==
  IF v \notin DOMAIN users
    THEN Settle("unblockUser", 404, u, NoId) /\ UNCHANGED <<store, walk>>
  ELSE IF ~Blocks(u, v)
    THEN Settle("unblockUser", 400, u, NoId) /\ UNCHANGED <<store, walk>>
  ELSE /\ Settle("unblockUser", 200, u, NoId)
       /\ users' = [users EXCEPT ![u].blockedUsers = Pull(@, v)]
       /\ walk' = NoWalk
       /\ UNCHANGED <<posts, comments, savedPosts, notifications, nextId>>

\* String.prototype.trim, for the blank the model's texts use
RECURSIVE TrimStart(_)
TrimStart(s) == IF s # <<>> /\ Head(s) = " " THEN TrimStart(Tail(s)) ELSE s

RECURSIVE TrimEnd(_)
TrimEnd(s) ==
  IF s # <<>> /\ s[Len(s)] = " " THEN TrimEnd(SubSeq(s, 1, Len(s) - 1)) ELSE s

Trim(s) == TrimEnd(TrimStart(s))

\* userController.addKeywordFilter: the keyword is kept trimmed and lowercased
addKeywordFilter(u, keyword) ==
  IF IsBlank(keyword) \/ Contains(users[u].keywordFilters, ToLowerCase(Trim(keyword)))
    THEN Settle("addKeywordFilter", 400, u, NoId) /\ UNCHANGED <<store, walk>>
    ELSE /\ Settle("addKeywordFilter", 200, u, NoId)
         /\ users' = [users EXCEPT
                        ![u].keywordFilters = Append(@, ToLowerCase(Trim(keyword)))]
         /\ walk' = NoWalk
         /\ UNCHANGED <<posts, comments, savedPosts, notifications, nextId>>

\* userController.updateCurrentUser with settings.contentFilters in the body
updateCurrentUser(u, contentFiltering, showSensitiveContent) ==
  /\ Settle("updateCurrentUser", 200, u, NoId)
  /\ users' = [users EXCEPT ![u].contentFiltering = contentFiltering,
                            ![u].showSensitiveContent = showSensitiveContent]
  /\ walk' = NoWalk
  /\ UNCHANGED <<posts, comments, savedPosts, notifications, nextId>>

\* postController.savePost
savePost(u, p) ==
  IF p \notin DOMAIN posts
    THEN Settle("savePost", 404, u, p) /\ UNCHANGED <<store, walk>>
  ELSE IF posts[p].visibility # "public"
    THEN Settle("savePost", 403, u, p) /\ UNCHANGED <<store, walk>>
  ELSE IF \E s \in DOMAIN savedPosts :
            savedPosts[s].userId = u /\ savedPosts[s].postId = p
    THEN Settle("savePost", 400, u, p) /\ UNCHANGED <<store, walk>>
  ELSE /\ Settle("savePost", 200, u, p)
       /\ savedPosts' = Insert(savedPosts, nextId, NewSavedPost(u, p, now))
       /\ nextId' = nextId + 1
       /\ posts' = IncField(posts, p, "saveCount", 1)
       /\ walk' = NoWalk
       /\ UNCHANGED <<users, comments, notifications>>

----------------------------------------------------------------------------
(* The clock *)

\* time passes between requests: a request lasts milliseconds, a tick hours
Tick ==
  /\ NoneActive
  /\ now < MaxTicks * TickHours
  /\ now' = now + TickHours
  /\ resp' = NoResp
  /\ UNCHANGED <<store, reqs, started, walk>>

----------------------------------------------------------------------------
(* Reactions under concurrent requests *)

\* alice's public post, commented once by bob when it was new
InitEngage ==
  /\ users = [u \in Users |->
               IF u = "bob" THEN [NewUser(FALSE) EXCEPT !.totalComments = 1]
               ELSE IF u = "alice" THEN [NewUser(FALSE) EXCEPT !.totalPosts = 1]
               ELSE NewUser(TRUE)]
  /\ posts = (1 :> [NewPost("alice", TextOk, FALSE, {}, "public", 0) EXCEPT
                      !.commentCount = 1, !.engagementScore = 20000])
  /\ comments = (2 :> NewComment(1, "bob", NoId, TextOk, "public", 0))
  /\ savedPosts = <<>>
  /\ notifications = (3 :> NewNotification("alice", "comment", 0))
  /\ nextId = 4
  /\ now = 0
  /\ reqs = [r \in Slots |-> Idle]
  /\ started = 0
  /\ resp = NoResp
  /\ walk = NoWalk

Members == Users \ Admins

\* a request of postController.addReaction or removeReaction starts
StartPostReaction ==
  \E u \in Members, p \in ReqIds(posts), k \in ReqKindsAny :
    AddReactionFind(u, p, k) \/ RemoveReactionFind(u, p, k)

\* a request of commentController.addCommentReaction or removeCommentReaction starts
StartCommentReaction ==
  \E u \in Members, c \in ReqIds(comments), k \in ReqKindsAny :
    AddCommentReactionFind(u, c, k) \/ RemoveCommentReactionFind(u, c, k)

\* a request of postController in flight takes its next step
StepPostReaction ==
  \E r \in Slots :
    \/ AddReactionUpdate(r)
    \/ AddReactionMetrics(r)
    \/ AddReactionLoad(r)
    \/ AddReactionSave(r)
    \/ RemoveReactionUpdate(r)
    \/ RemoveReactionMetrics(r)
    \/ RemoveReactionLoad(r)
    \/ RemoveReactionSave(r)

\* a request of commentController in flight takes its next step
StepCommentReaction ==
  \E r \in Slots :
    \/ AddCommentReactionUpdate(r)
    \/ AddCommentReactionMetrics(r)
    \/ AddCommentReactionLoad(r)
    \/ RemoveCommentReactionUpdate(r)
    \/ RemoveCommentReactionMetrics(r)
    \/ RemoveCommentReactionLoad(r)

NextEngage ==
  \/ StartPostReaction
  \/ StartCommentReaction
  \/ StepPostReaction
  \/ StepCommentReaction
  \/ \E r \in Slots : Notify(r)
  \/ Tick

SpecEngage == InitEngage /\ [][NextEngage]_vars

----------------------------------------------------------------------------
(* The operations that change an input of the engagement score, one request
   at a time *)

\* the texts of the comments and replies
EngageTexts == {TextOk, TextTag, TextBlank}

StartComment ==
  \E u \in Members, t \in EngageTexts :
    \/ \E p \in ReqIds(posts) : AddCommentFind(u, p, t)
    \/ \E c \in ReqIds(comments) : AddReplyFind(u, c, t)

StartDeleteComment ==
  \E c \in ReqIds(comments) :
    \/ \E u \in Users : DeleteCommentFind(u, c)
    \/ \E a \in Admins, n \in BOOLEAN : AdminDeleteCommentFind(a, c, n)

StartGetPost ==
  \E v \in Members \cup {NoUser}, p \in ReqIds(posts) : GetPostFind(v, p)

StepComment ==
  \E r \in Slots :
    \/ AddCommentCreate(r)
    \/ AddCommentCount(r)
    \/ AddCommentMetrics(r)
    \/ AddCommentLoad(r)
    \/ AddCommentSave(r)
    \/ AddReplyPost(r)
    \/ AddReplyCreate(r)
    \/ AddReplyCount(r)
    \/ AddReplyMetrics(r)
    \/ AddReplyLoad(r)
    \/ AddReplySave(r)
    \/ DeleteCommentSave(r)
    \/ DeleteCommentCount(r)
    \/ DeleteCommentMetrics(r)
    \/ DeleteCommentLoad(r)
    \/ DeleteCommentScore(r)
    \/ AdminDeleteCommentTransaction(r)
    \/ GetPostImpression(r)
    \/ GetPostComments(r)

NextScore ==
  \/ NoneActive /\ StartPostReaction
  \/ NoneActive /\ StartComment
  \/ NoneActive /\ StartDeleteComment
  \/ NoneActive /\ StartGetPost
  \/ StepPostReaction
  \/ StepComment
  \/ \E r \in Slots : Notify(r)
  \/ Tick

SpecScore == InitEngage /\ [][NextScore]_vars

----------------------------------------------------------------------------
(* Claims *)

CounterMatchesReactors(doc) ==
  \A k \in Kinds : doc.reactions[k] = Len(doc.reactionUsers[k])

\* C1: on every post and comment, for every reaction kind, the stored counter
\* reactions[kind] equals the number of user ids in reactionUsers[kind], after
\* any interleaving of addReaction and removeReaction requests.
C1_CountersMatchReactors ==
  /\ \A p \in DOMAIN posts : CounterMatchesReactors(posts[p])
  /\ \A c \in DOMAIN comments : CounterMatchesReactors(comments[c])

----------------------------------------------------------------------------
(* The listings *)

\* bob wrote posts 1 and 2, alice post 3 that mentions bob (notification 4);
\* bob commented it (5, notification 6), alice commented it (7) and replied
\* to bob (8, notification 9); alice saved posts 2 and 1 (10, 11) and then
\* filtered the keyword "boo"
InitListing ==
  /\ users = [u \in Users |->
               IF u = "bob"
                 THEN [NewUser(FALSE) EXCEPT !.totalPosts = 2, !.totalComments = 1]
               ELSE IF u = "alice"
                 THEN [NewUser(FALSE) EXCEPT !.totalPosts = 1, !.totalComments = 2,
                                             !.keywordFilters = <<KeywordBoo>>]
               ELSE NewUser(TRUE)]
  /\ posts = (1 :> [NewPost("bob", TextOk, FALSE, {}, "public", 0)
                      EXCEPT !.saveCount = 1])
          @@ (2 :> [NewPost("bob", TextBoo, FALSE, {TagTv}, "public", 0)
                      EXCEPT !.saveCount = 1])
          @@ (3 :> [NewPost("alice", TextTag, FALSE, {TagTv}, "public", 0)
                      EXCEPT !.commentCount = 3, !.engagementScore = 60000])
  /\ comments = (5 :> NewComment(3, "bob", NoId, TextOk, "public", 0))
             @@ (7 :> NewComment(3, "alice", NoId, TextOk, "public", 0))
             @@ (8 :> NewComment(3, "alice", 5, TextOk, "public", 0))
  /\ savedPosts = (10 :> NewSavedPost("alice", 2, 0)) @@ (11 :> NewSavedPost("alice", 1, 0))
  /\ notifications = (4 :> NewNotification("bob", "mention", 0))
                  @@ (6 :> NewNotification("alice", "comment", 0))
                  @@ (9 :> NewNotification("bob", "reply", 0))
  /\ nextId = 12
  /\ now = 0
  /\ reqs = [r \in Slots |-> Idle]
  /\ started = 0
  /\ resp = NoResp
  /\ walk = NoWalk

Viewers == Members \cup {NoUser}

\* the texts of the posts created while the listings are read
ViewTexts == {TextBoo, TextBad, TextBlank}

Change ==
  \/ \E u \in Members, t \in ViewTexts, w \in BOOLEAN : createPost(u, t, w)
  \/ \E u \in Users, p \in ReqIds(posts) : deletePost(u, p)
  \/ \E a \in Admins, p \in ReqIds(posts), x \in {"flag", "remove", "restore", "ban"} :
       moderatePost(a, p, x)
  \/ \E u \in Members, v \in Members : blockUser(u, v) \/ unblockUser(u, v)
  \/ \E u \in Members, k \in {KeywordTv, TextBlank} : addKeywordFilter(u, k)
  \/ \E u \in Members, f \in BOOLEAN, w \in BOOLEAN : updateCurrentUser(u, f, w)
  \/ \E u \in Members, p \in ReqIds(posts) : savePost(u, p)

\* every listing, first page, default page size
View ==
  \/ \E v \in Viewers : getPersonalizedFeed(v, NoId, DefaultLimit)
  \/ \E v \in Viewers : getPostsByHashtag(v, TagTv, NoId, DefaultLimit)
  \/ \E v \in Viewers, u \in Members : getUserPosts(v, u, NoId, DefaultLimit)
  \/ \E v \in Viewers : getCategoryPosts(v, SlugShows, NoId, DefaultLimit)
  \/ \E v \in Viewers : getExploreContent(v, <<>>, NoId, DefaultLimit)
  \/ \E v \in Viewers, t \in {"24h", "7d"} : getTrendingPosts(v, t, <<>>, DefaultLimit)
  \/ \E v \in Members : getSavedPosts(v, NoId, DefaultLimit)
  \/ \E v \in Viewers : searchPosts(v, KeywordBoo, NoId, DefaultLimit)
  \/ \E v \in Viewers, p \in DOMAIN posts : getComments(v, p, NoId, DefaultLimit)
  \/ \E v \in Viewers, c \in DOMAIN comments : getReplies(v, c, NoId, DefaultLimit)

NextView ==
  \/ Change
  \/ View
  \/ NoneActive /\ StartGetPost
  \/ \E r \in Slots : GetPostImpression(r) \/ GetPostComments(r)

SpecView == InitListing /\ [][NextView]_vars

Limits == 1..MaxLimit

\* the posts that have comments, the comments that have replies
Commented == {comments[c].postId : c \in DOMAIN comments}
Replied == {comments[c].parentId : c \in DOMAIN comments} \ {NoId}

\* a client asks for a first page or passes the nextCursor of its last page back
Page ==
  \E v \in Viewers, n \in Limits :
    \/ \E c \in Cursors("feed", v, NoId, NoUser, <<>>, n) : getPersonalizedFeed(v, c, n)
    \/ \E c \in Cursors("hashtag", v, NoId, NoUser, TagTv, n) :
         getPostsByHashtag(v, TagTv, c, n)
    \/ \E u \in Members : \E c \in Cursors("userPosts", v, NoId, u, <<>>, n) :
         getUserPosts(v, u, c, n)
    \/ \E c \in Cursors("category", v, NoId, NoUser, SlugShows, n) :
         getCategoryPosts(v, SlugShows, c, n)
    \/ \E c \in Cursors("explore", v, NoId, NoUser, <<>>, n) :
         getExploreContent(v, <<>>, c, n)
    \/ \E c \in Cursors("search", v, NoId, NoUser, TextOk, n) : searchPosts(v, TextOk, c, n)
    \/ \E p \in Commented : \E c \in Cursors("comments", v, p, NoUser, <<>>, n) :
         getComments(v, p, c, n)
    \/ \E x \in Replied : \E c \in Cursors("replies", v, x, NoUser, <<>>, n) :
         getReplies(v, x, c, n)

\* the listings behind protect
PageOwn ==
  \E v \in Members, n \in Limits :
    \/ \E c \in Cursors("saved", v, NoId, NoUser, <<>>, n) : getSavedPosts(v, c, n)
    \/ \E c \in Cursors("notifications", v, NoId, NoUser, <<>>, n) :
         getNotifications(v, c, n)

\* the texts of the posts created while a client pages
PageTexts == {TextOk, TextBoo}

NextPage ==
  \/ \E u \in Members, t \in PageTexts : createPost(u, t, FALSE)
  \/ Page
  \/ PageOwn

SpecPage == InitListing /\ [][NextPage]_vars

\* the operations that change an input of the engagement score of a post
ScoreOps ==
  {"addReaction", "removeReaction", "addComment", "addReply", "deleteComment",
   "adminDeleteComment", "getPost"}

\* the operation answered with success and its post is still there
Succeeded(ops) ==
  /\ resp.op \in ops
  /\ resp.status \in {200, 201}
  /\ resp.postId \in DOMAIN posts

\* C10: when an operation that changes an input of the engagement score (a
\* reaction added or removed, a comment or reply added, a comment deleted by its
\* author or hard-deleted by an admin, an impression counted by getPost) has
\* answered with success, the stored engagementScore of the post is the score
\* recomputed from the post's full state at that time.
C10_ScoreRecomputed ==
  Succeeded(ScoreOps) =>
    posts[resp.postId].engagementScore = ScoreOf(posts[resp.postId], now)

\* the operations whose handlers do recompute: the same property holds for them
C10_CommentOpsRecompute ==
  Succeeded({"addComment", "addReply", "deleteComment"}) =>
    posts[resp.postId].engagementScore = ScoreOf(posts[resp.postId], now)

----------------------------------------------------------------------------
(* Visibility of posts on the listings *)

\* the listings of posts
PostListings ==
  {"feed", "explore", "trending", "hashtag", "category", "userPosts", "saved", "search"}

\* a listing of ops answered the viewer with items
Listed(ops) == resp.op \in ops /\ resp.status = 200

\* the viewer is neither the author of the post nor an admin (or there is no viewer)
Outsider(viewer, post) ==
  viewer = NoUser \/ (post.userId # viewer /\ ~users[viewer].isAdmin)

\* C2: after any sequence of createPost, deletePost and moderation requests, a
\* post whose visibility is not public is on no listing (feed, explore, trending,
\* hashtag, category, user-posts, saved-posts, search) returned to a viewer who
\* is neither its author nor an admin, nor to no viewer, and getPost answers
\* such a viewer with 403.
C2_NonPublicHidden ==
  /\ Listed(PostListings) =>
       \A i \in DOMAIN resp.items :
         Outsider(resp.user, posts[resp.items[i]]) =>
           posts[resp.items[i]].visibility = "public"
  /\ (/\ resp.op = "getPost"
      /\ resp.target \in DOMAIN posts
      /\ posts[resp.target].visibility # "public"
      /\ Outsider(resp.user, posts[resp.target])) => resp.status = 403

\* a listing that matches a removed post of somebody else came back without it
C2_Witness ==
  /\ Listed({"hashtag"})
  /\ resp.items # <<>>
  /\ \E p \in DOMAIN posts :
       /\ posts[p].visibility = "moderated"
       /\ ToLowerCase(resp.tag) \in posts[p].hashtags
       /\ Outsider(resp.user, posts[p])
       /\ ~Contains(resp.items, p)

\* the viewer blocks the author or the author blocks the viewer
BlockedEitherWay(viewer, author) == Blocks(viewer, author) \/ Blocks(author, viewer)

\* C3: when the viewer's blockedUsers contains the author of a post, or the
\* author's blockedUsers contains the viewer, filterPostsForUser excludes the
\* post and the post is absent from the feed, explore, trending, hashtag and
\* category listings returned to that viewer.
C3_BlockedExcluded ==
  /\ \A v \in Members, p \in DOMAIN posts :
       BlockedEitherWay(v, posts[p].userId) => filterPostsForUser(<<p>>, v) = <<>>
  /\ (Listed({"feed", "explore", "trending", "hashtag", "category"})
        /\ resp.user # NoUser) =>
       \A i \in DOMAIN resp.items :
         ~BlockedEitherWay(resp.user, posts[resp.items[i]].userId)

\* the viewer filter applied to a comment: a comment carries no contentWarning
ShownComment(user, comment) ==
  /\ ~Blocks(user, comment.userId)
  /\ ~(/\ users[user].contentFiltering
       /\ containsSensitiveContent(comment.content, users[user].keywordFilters))
  /\ comment.visibility = "public"

\* C4: the viewer filter (blocklist, sensitive-content and keyword rules) is
\* applied to the results of every listing: no item that filterPostsForUser
\* excludes for the viewer is returned to that viewer by the feed, explore,
\* trending, hashtag, category, user-posts, saved-posts or search listing, nor
\* by a comment or reply list.
C4_FilterOnEveryListing ==
  /\ (Listed(PostListings) /\ resp.user # NoUser) =>
       \A i \in DOMAIN resp.items :
         filterPostsForUser(<<resp.items[i]>>, resp.user) # <<>>
  /\ (Listed({"comments", "replies"}) /\ resp.user # NoUser) =>
       \A i \in DOMAIN resp.items : ShownComment(resp.user, comments[resp.items[i]])

\* keyword occurs in content as a substring, whatever the case of either
OccursIgnoringCase(keyword, content) ==
  \E j \in 0..(Len(content) - Len(keyword)) :
    \A k \in 1..Len(keyword) : LowerChar(content[j + k]) = LowerChar(keyword[k])

\* filterPostsForUser keeps the post for the viewer
Keeps(v, p) == filterPostsForUser(<<p>>, v) = <<p>>

\* C9: for a viewer with contentFiltering enabled, filterPostsForUser excludes
\* every post that carries a contentWarning when showSensitiveContent is false,
\* and every post whose content contains one of the viewer's keyword filters as
\* a case-insensitive substring; for a viewer with contentFiltering disabled
\* neither rule excludes a post: a public post of an author the viewer does not
\* block is kept.
C9_ContentFilterRules ==
  \A v \in Members, p \in DOMAIN posts :
    LET viewer == users[v]
        post == posts[p]
    IN /\ (/\ viewer.contentFiltering
           /\ post.contentWarning
           /\ ~viewer.showSensitiveContent) => ~Keeps(v, p)
       /\ (/\ viewer.contentFiltering
           /\ \E i \in DOMAIN viewer.keywordFilters :
                OccursIgnoringCase(viewer.keywordFilters[i], post.content))
            => ~Keeps(v, p)
       /\ (/\ ~viewer.contentFiltering
           /\ post.visibility = "public"
           /\ ~Blocks(v, post.userId)) => Keeps(v, p)

\* the feed of a filtering viewer fetched a post that holds a keyword of the
\* viewer in another case and came back without it, and some viewer who
\* switched filtering off is shown a post that carries a warning
C9_Witness ==
  /\ Listed({"feed"}) /\ resp.user # NoUser
  /\ users[resp.user].contentFiltering
  /\ \E i \in DOMAIN resp.kept :
       /\ ~Contains(resp.items, resp.kept[i])
       /\ ~posts[resp.kept[i]].contentWarning
       /\ ~containsSensitiveContentExact(posts[resp.kept[i]].content,
                                         users[resp.user].keywordFilters)
  /\ \E v \in Members, p \in DOMAIN posts :
       ~users[v].contentFiltering /\ posts[p].contentWarning /\ Keeps(v, p)

----------------------------------------------------------------------------
(* Pages and cursors *)

\* the chronological listings whose cursor is the _id of an item
ChronoListings ==
  {"feed", "hashtag", "userPosts", "category", "comments", "notifications"}

\* C5: for the chronological cursor listings (feed, hashtag, user-posts,
\* category, top-level comments, notifications), while the store does not
\* change, the page obtained by passing the nextCursor of a page back holds no
\* item of that page.
C5_NextPageRepeatsNothing ==
  (walk.op \in ChronoListings /\ walk.pages > 1 /\ walk.clean) =>
    Range(walk.page) \cap Range(walk.prev) = {}

\* a second page with items followed a first page with items
C5_Witness ==
  /\ walk.op \in ChronoListings /\ walk.pages > 1 /\ walk.clean
  /\ walk.prev # <<>>
  /\ walk.page # <<>>
  /\ resp.cursor = walk.prev[Len(walk.prev)]

\* the listings that fetch limit + 1 documents
PlusOneListings ==
  {"feed", "hashtag", "userPosts", "category", "saved", "comments", "replies",
   "notifications"}

\* the documents the query of the answered listing matches after its cursor
Eligible ==
  CASE resp.op = "feed" -> FeedQuery(resp.user, resp.cursor)
    [] resp.op = "hashtag" -> HashtagQuery(resp.tag, resp.cursor)
    [] resp.op = "userPosts" -> UserPostsQuery(resp.author, resp.cursor)
    [] resp.op = "category" ->
         CategoryQuery(CHOOSE c \in Categories : c.slug = resp.tag, resp.cursor)
    [] resp.op = "saved" -> SavedQuery(resp.user, resp.cursor)
    [] resp.op = "comments" -> CommentsQuery(resp.target, resp.cursor)
    [] resp.op = "replies" -> RepliesQuery(resp.target, resp.cursor)
    [] OTHER -> NotificationsQuery(resp.user, resp.cursor)

\* the _id the next page has to start after: that of the last returned item
\* (of its SavedPost record on the saved listing)
LastReturned ==
  IF resp.op = "saved" THEN LastId(resp.kept) ELSE LastId(resp.items)

\* C6: for every listing that fetches limit+1 items with page size n: when the
\* store holds more than n eligible items after the cursor, exactly n are kept
\* before the viewer filter, hasMore is true and nextCursor is the id of the
\* last returned item; when the store holds at most n, all of them are kept and
\* hasMore is false.
C6_LimitPlusOne ==
  Listed(PlusOneListings) =>
    LET n == resp.limit
        e == Cardinality(Eligible)
    IN /\ e > n => /\ Len(resp.kept) = n
                   /\ resp.hasMore
                   /\ resp.items # <<>>
                   /\ resp.nextCursor = LastReturned
       /\ e <= n => /\ Len(resp.kept) = e
                    /\ ~resp.hasMore

\* the part of C6 on the number of items kept and on hasMore
C6_KeptAndHasMore ==
  Listed(PlusOneListings) =>
    LET n == resp.limit
        e == Cardinality(Eligible)
    IN /\ e > n => Len(resp.kept) = n /\ resp.hasMore
       /\ e <= n => Len(resp.kept) = e /\ ~resp.hasMore

\* C7: in every paginated listing response, nextCursor is null whenever hasMore
\* is false, and is the sort key of the last returned item whenever hasMore is
\* true (the offset after the last returned item on the search listing).
C7_NextCursorFollowsHasMore ==
  Listed(PlusOneListings \cup {"explore", "search"}) =>
    /\ ~resp.hasMore => resp.nextCursor = NoId
    /\ resp.hasMore =>
         IF resp.op = "search" THEN resp.nextCursor = resp.cursor + Len(resp.items)
         ELSE resp.items # <<>> /\ resp.nextCursor = LastReturned

\* how often x occurs in s
Count(s, x) == Cardinality({i \in DOMAIN s : s[i] = x})

\* the posts of walk.first the viewer of the walk is to receive
Due ==
  {p \in walk.first :
     /\ posts[p].visibility = "public"
     /\ (walk.user # NoUser => filterPostsForUser(<<p>>, walk.user) # <<>>)}

\* the walk reached the page that says there is no more
Finished == walk.pages > 0 /\ ~walk.open /\ walk.wasOpen

\* C8: while posts are created (each with an id and a creation time above all
\* others), a client that pages through the feed by passing each nextCursor
\* back receives every public post that existed when paging started exactly
\* once: none comes twice, and none is missing when the feed says there is no
\* more.
C8_FeedExactlyOnce ==
  walk.op = "feed" =>
    /\ \A p \in walk.first : Count(walk.seen, p) <= 1
    /\ Finished => \A p \in Due : Count(walk.seen, p) = 1

\* the same for a client without account, whose pages no filter shortens
C8_AnonymousFeedExactlyOnce ==
  (walk.op = "feed" /\ walk.user = NoUser) =>
    /\ \A p \in walk.first : Count(walk.seen, p) <= 1
    /\ Finished => \A p \in Due : Count(walk.seen, p) = 1

----------------------------------------------------------------------------
(* Signs of the score inputs *)

\* every input of the score of post p is at least 0
InputsNonNegative(p) ==
  /\ \A k \in Kinds : posts[p].reactions[k] >= 0
  /\ posts[p].commentCount >= 0
  /\ posts[p].shareCount >= 0
  /\ posts[p].impressionCount >= 0

\* C11: in every reachable state, after any sequence of reaction, comment,
\* reply, comment-delete and view requests, every score input of every post
\* (each reaction counter, commentCount, shareCount, impressionCount) is at
\* least 0, and the stored engagementScore is not negative.
C11_ScoreInputsNonNegative ==
  \A p \in DOMAIN posts : InputsNonNegative(p) /\ posts[p].engagementScore >= 0

----------------------------------------------------------------------------
(* Reactions and comments on one post under concurrent requests *)

\* a request of addReaction, removeReaction or addComment on a post starts
StartOnPost ==
  \E u \in Members, p \in DOMAIN posts :
    \/ \E k \in ReqKinds : AddReactionFind(u, p, k) \/ RemoveReactionFind(u, p, k)
    \/ AddCommentFind(u, p, TextOk)

\* a request of commentController.addComment in flight takes its next step
StepAddComment ==
  \E r \in Slots :
    \/ AddCommentCreate(r)
    \/ AddCommentCount(r)
    \/ AddCommentMetrics(r)
    \/ AddCommentLoad(r)
    \/ AddCommentSave(r)

NextHeal ==
  \/ StartOnPost
  \/ StepPostReaction
  \/ StepAddComment
  \/ \E r \in Slots : Notify(r)
  \/ Tick

SpecHeal == InitEngage /\ [][NextHeal]_vars

\* a request of ops went through all its steps and answered, no step of another
\* request in between, and its post is still there
RanAlone(ops) ==
  /\ resp.op \in ops
  /\ resp.alone
  /\ resp.status \in {200, 201, 500}
  /\ resp.postId \in DOMAIN posts

\* C12: under any interleaving of concurrent reaction and comment requests on
\* one post, when a reaction or comment request on the post has run to
\* completion without interleaving, the stored engagementScore is the scorer's
\* value for the post's counters at that time, whatever it was before.
C12_NextRequestCorrects ==
  RanAlone({"addReaction", "removeReaction", "addComment"}) =>
    posts[resp.postId].engagementScore = ScoreOf(posts[resp.postId], now)

\* the same for the comment requests alone
C12_CommentRequestCorrects ==
  RanAlone({"addComment"}) =>
    posts[resp.postId].engagementScore = ScoreOf(posts[resp.postId], now)

\* no request is in flight, no reaction was counted and no time has passed, yet
\* the stored score is not the scorer's value: two addComment requests interleaved
StaleScoreAtRest ==
  /\ NoneActive
  /\ now = 0
  /\ \E p \in DOMAIN posts :
       /\ posts[p].reactions = ZeroReactions
       /\ posts[p].engagementScore # ScoreOf(posts[p], now)

----------------------------------------------------------------------------
(* Cursors that are malformed or stale *)

\* the cursors of a client that kept one from long ago or garbles it: a string
\* that is no ObjectId, or any ObjectId, of a document that exists or not
AnyCursors == {MalformedId} \cup (1..nextId)

\* a request with such a cursor to a listing whose cursor is an _id
Probe ==
  \E v \in Viewers, c \in AnyCursors :
    \/ getPersonalizedFeed(v, c, DefaultLimit)
    \/ getPostsByHashtag(v, TagTv, c, DefaultLimit)
    \/ \E u \in Members : getUserPosts(v, u, c, DefaultLimit)
    \/ getCategoryPosts(v, SlugShows, c, DefaultLimit)
    \/ getExploreContent(v, <<>>, c, DefaultLimit)
    \/ \E p \in Commented : getComments(v, p, c, DefaultLimit)
    \/ \E x \in Replied : getReplies(v, x, c, DefaultLimit)

\* the same to the listings behind protect
ProbeOwn ==
  \E v \in Members, c \in AnyCursors :
    \/ getSavedPosts(v, c, DefaultLimit)
    \/ getNotifications(v, c, DefaultLimit)

NextCursor ==
  \/ Probe
  \/ ProbeOwn
  \/ \E u \in Members, p \in DOMAIN posts : deletePost(u, p)
  \/ NoneActive /\ \E a \in Admins, c \in DOMAIN comments :
       AdminDeleteCommentFind(a, c, FALSE)
  \/ \E r \in Slots : AdminDeleteCommentTransaction(r)

SpecCursor == InitListing /\ [][NextCursor]_vars

\* the listings whose cursor is the _id of a document
IdCursorListings ==
  {"feed", "hashtag", "userPosts", "category", "explore", "saved", "comments",
   "replies", "notifications"}

\* item x of the answered listing comes after the cursor in the order of the
\* listing: newest first, but oldest first on the replies and by savedAt on the
\* saved posts, where the cursor names a SavedPost record
AfterInOrder(x) ==
  CASE resp.op = "replies" -> x > resp.cursor
    [] resp.op = "saved" -> resp.cursor \in DOMAIN savedPosts => SavedLater(resp.cursor, x)
    [] OTHER -> x < resp.cursor

\* C13: a request to a cursor-paginated listing that carries an invalid or
\* stale cursor (a malformed id, or the id of an item that no longer exists)
\* is never answered with an error: unless what it lists is unknown or
\* forbidden (404, 403), it succeeds and returns only items positioned after
\* the cursor, possibly none.
C13_BadCursorNeverFails ==
  (/\ resp.op \in IdCursorListings
   /\ resp.cursor # NoId
   /\ resp.status \notin {403, 404}) =>
     /\ resp.status = 200
     /\ \A i \in DOMAIN resp.kept : AfterInOrder(resp.kept[i])

\* the part of C13 on the ObjectIds that name no document (any more): the
\* listings newest first answer 200 with items after the cursor only
C13_StaleCursorDegrades ==
  (/\ resp.op \in IdCursorListings \ {"replies", "saved"}
   /\ resp.cursor \notin {NoId, MalformedId}
   /\ resp.status \notin {403, 404}) =>
     /\ resp.status = 200
     /\ \A i \in DOMAIN resp.kept : AfterInOrder(resp.kept[i])

----------------------------------------------------------------------------
(* Listings that take a timeframe or a sort order *)

\* the orders a store may return the documents of S in when nothing fixes one
Orders(S) ==
  {s \in [1..Cardinality(S) -> S] : \A i, j \in DOMAIN s : i # j => s[i] # s[j]}

\* $match, $unwind, $group: the hashtags of the public posts created since
\* startTime, each with the number of those posts
HashtagCounts(startTime) ==
  LET recent == {p \in DOMAIN posts :
                   IsPublic(posts[p]) /\ posts[p].createdAt >= startTime}
      tags == UNION {posts[p].hashtags : p \in recent}
  IN [t \in tags |-> Cardinality({p \in recent : t \in posts[p].hashtags})]

\* searchController.getTrendingHashtags with searchService.getTrendingHashtags:
\* a timeframe other than '24h' and '7d' is answered 400; order is one of the
\* orders of the hashtags, $sort { count: -1 } keeps those that do not put a
\* smaller count first
TrendingHashtagsPage(timeframe, limit, order) ==
  IF timeframe \notin {"24h", "7d"} THEN Fail(400)
  ELSE LET hashtags == Limit(order, limit)
       IN Out(hashtags, hashtags, FALSE, NoId)

getTrendingHashtags(viewer, timeframe, limit) ==
  LET startTime == IF timeframe = "7d" THEN now - 7 * 24 ELSE now - 24
      count == HashtagCounts(startTime)
  IN \E order \in Orders(DOMAIN count) :
       /\ \A i, j \in DOMAIN order : i < j => count[order[i]] >= count[order[j]]
       /\ ServeOption("trendingHashtags", viewer, NoId, NoUser, <<>>, NoId, limit,
                      timeframe, TrendingHashtagsPage(timeframe, limit, order))

\* searchService.searchPosts: sortBy 'recent' sorts by createdAt, 'engagement'
\* by engagementScore, every other value, known or not, by textScore and then
\* createdAt; relevance is one of the orders of the matching posts, the
\* textScore of the store is not computed here
SearchSortedPage(q, sortBy, relevance, cursor, limit) ==
  IF IsBlank(q) THEN Fail(400)
  ELSE LET matching == {p \in DOMAIN posts :
                          /\ TextMatches(q, posts[p])
                          /\ IsPublic(posts[p])
                          /\ NotIn(NoUser, posts[p].userId)}
           sorted == IF sortBy = "recent" THEN ByCreatedDesc(posts, matching)
                     ELSE IF sortBy = "engagement" THEN ByScoreDesc(matching)
                     ELSE relevance
           results == Limit(SubSeq(sorted, cursor + 1, Len(sorted)), limit)
           hasMore == Len(results) = limit
       IN Out(results, results, hasMore,
              IF hasMore THEN cursor + Len(results) ELSE NoId)

searchPostsSorted(viewer, q, sortBy, cursor, limit) ==
  \E relevance \in Orders({p \in DOMAIN posts :
                             /\ TextMatches(q, posts[p])
                             /\ IsPublic(posts[p])
                             /\ NotIn(NoUser, posts[p].userId)}) :
    ServeOption("search", viewer, NoId, NoUser, q, cursor, limit, sortBy,
                SearchSortedPage(q, sortBy, relevance, cursor, limit))

\* the timeframes and sort orders the requests carry: the supported ones and
\* one that is not
Timeframes == {"24h", "7d", "30d"}
SortOrders == {"relevance", "recent", "engagement", "oldest"}

NextOption ==
  \/ \E u \in Members, t \in PageTexts : createPost(u, t, FALSE)
  \/ \E v \in Viewers, t \in Timeframes, n \in Limits : getTrendingPosts(v, t, <<>>, n)
  \/ \E t \in Timeframes, n \in Limits : getTrendingHashtags(NoUser, t, n)
  \/ \E o \in SortOrders, n \in Limits : searchPostsSorted(NoUser, TextOk, o, NoId, n)
  \/ Tick

SpecOption == InitListing /\ [][NextOption]_vars

\* C14: a listing request that carries a timeframe outside {24h, 7d} (trending
\* posts, trending hashtags) or a sortBy outside the supported set (post
\* search) is rejected with a 4xx validation error and returns no items.
C14_InvalidOptionRejected ==
  (\/ resp.op \in {"trending", "trendingHashtags"} /\ resp.option \notin {"24h", "7d"}
   \/ resp.op = "search" /\ resp.option \notin {"relevance", "recent", "engagement"})
    => resp.status \in 400..499 /\ resp.items = <<>>

\* the part of C14 that holds: the trending hashtags reject the timeframe
C14_TrendingHashtagsReject ==
  (resp.op = "trendingHashtags" /\ resp.option \notin {"24h", "7d"})
    => resp.status = 400 /\ resp.items = <<>>

----------------------------------------------------------------------------
(* Page sizes above the cap *)

\* one document more than the cap in every listing: bob's posts 1..n with the
\* hashtag tv, n comments on post 1 and n replies to its first comment, n
\* notifications of alice, and alice saved every post
InitCap ==
  LET n == LimitCap + 1
  IN /\ users = [u \in Users |-> NewUser(u \in Admins)]
     /\ posts = [p \in 1..n |-> NewPost("bob", TextTag, FALSE, {TagTv}, "public", 0)]
     /\ comments = [c \in (n + 1)..(3 * n) |->
                      NewComment(1, "bob", IF c <= 2 * n THEN NoId ELSE n + 1,
                                 TextOk, "public", 0)]
     /\ notifications = [x \in (3 * n + 1)..(4 * n) |-> NewNotification("alice", "comment", 0)]
     /\ savedPosts = [x \in (4 * n + 1)..(5 * n) |-> NewSavedPost("alice", x - 4 * n, 0)]
     /\ nextId = 5 * n + 1
     /\ now = 0
     /\ reqs = [r \in Slots |-> Idle]
     /\ started = 0
     /\ resp = NoResp
     /\ walk = NoWalk

\* the page sizes a client asks for: the cap and more
CapLimits == {LimitCap, LimitCap + 1}

\* a first page of every paginated listing
AskMany ==
  \E v \in {NoUser, "alice"}, n \in CapLimits :
    \/ getPersonalizedFeed(v, NoId, n)
    \/ getExploreContent(v, <<>>, NoId, n)
    \/ getTrendingPosts(v, "24h", <<>>, n)
    \/ getPostsByHashtag(v, TagTv, NoId, n)
    \/ getCategoryPosts(v, SlugShows, NoId, n)
    \/ getUserPosts(v, "bob", NoId, n)
    \/ \E p \in Commented : getComments(v, p, NoId, n)
    \/ \E c \in Replied : getReplies(v, c, NoId, n)
    \/ searchPosts(v, TagTv, NoId, n)

\* the same of the listings behind protect
AskManyOwn ==
  \E v \in Members, n \in CapLimits :
    \/ getSavedPosts(v, NoId, n)
    \/ getNotifications(v, NoId, n)

NextCap == AskMany \/ AskManyOwn

SpecCap == InitCap /\ [][NextCap]_vars

\* every paginated listing
PaginatedListings ==
  {"feed", "explore", "trending", "hashtag", "category", "userPosts", "saved",
   "comments", "replies", "notifications", "search"}

\* C15: every paginated listing endpoint (feed, explore, trending, hashtag,
\* category, user-posts, saved-posts, comments, replies, notifications, post
\* search) returns at most 50 items in one response, whatever limit the client
\* requests.
C15_AtMostFiftyItems ==
  resp.op \in PaginatedListings => Len(resp.items) <= LimitCap

\* the listings whose handlers clamp the limit (Math.min(parseInt(limit), 50))
C15_ClampedListings ==
  resp.op \in PaginatedListings \ {"category", "search"} =>
    Len(resp.items) <= LimitCap

\* a clamped listing asked for more than the cap answered with as many as the cap
CapReached ==
  /\ resp.op \in PaginatedListings \ {"category", "search"}
  /\ resp.limit > LimitCap
  /\ Len(resp.items) = LimitCap

----------------------------------------------------------------------------
(* The scorer's formula *)

\* the values the scorer's inputs are drawn from
ReactionCounts == {0, 2}
CommentCounts == {0, 1}
ShareCounts == {0, 1}
ImpressionCounts == {0, 100}
Ages == {0, TickHours, 2 * TickHours, 3 * TickHours}

\* alice's public post created at time 0, its counters and its age drawn from
\* the sets above
InitFormula ==
  /\ users = [u \in Users |-> NewUser(u \in Admins)]
  /\ \E reactions \in [Kinds -> ReactionCounts], c \in CommentCounts,
        s \in ShareCounts, i \in ImpressionCounts :
       posts = (1 :> [NewPost("alice", TextOk, FALSE, {}, "public", 0) EXCEPT
                        !.reactions = reactions, !.commentCount = c,
                        !.shareCount = s, !.impressionCount = i])
  /\ comments = <<>>
  /\ savedPosts = <<>>
  /\ notifications = <<>>
  /\ nextId = 2
  /\ now \in Ages
  /\ reqs = [r \in Slots |-> Idle]
  /\ started = 0
  /\ resp = NoResp
  /\ walk = NoWalk

\* addComment applies the scorer to the post it reloaded
NextFormula ==
  \/ NoneActive /\ \E u \in Members, p \in DOMAIN posts : AddCommentFind(u, p, TextOk)
  \/ StepAddComment
  \/ \E r \in Slots : Notify(r)

SpecFormula == InitFormula /\ [][NextFormula]_vars

\* (five reaction counters*1 + commentCount*2 + shareCount*3
\*  + impressionCount*0.1) * exp(-ageHours/24), in units of 1/10000
WeightedDecayed(post, t) ==
  ((post.reactions["heart"] + post.reactions["thumbsup"] + post.reactions["joy"]
    + post.reactions["wow"] + post.reactions["hands"]) * 10
   + post.commentCount * 20
   + post.shareCount * 30
   + post.impressionCount * 1)
  * DecayPermille(t - post.createdAt)

\* a request that ran the scorer on the whole post and saved its value has
\* just answered
ScorerApplied ==
  /\ resp.op = "addComment"
  /\ resp.status = 201
  /\ resp.alone
  /\ resp.postId \in DOMAIN posts

IsExample(post, t) ==
  /\ SumOver(post.reactions, Kinds) = 10
  /\ post.commentCount = 2
  /\ post.shareCount = 0
  /\ post.impressionCount = 100
  /\ t - post.createdAt = 24

\* the example of the claim: 24 * exp(-1), about 8.83
C16_ExampleValue ==
  (ScorerApplied /\ IsExample(posts[resp.postId], now)) =>
    posts[resp.postId].engagementScore \in 88250..88349

----------------------------------------------------------------------------
(* The score a reaction request persists *)

\* a reaction request on a post passed its checks, changed the counter and ran
\* to its end with no other request in flight
ReactionApplied ==
  /\ resp.op \in {"addReaction", "removeReaction"}
  /\ resp.alone
  /\ resp.status \notin {400, 401, 403, 404}
  /\ resp.postId \in DOMAIN posts

C17_ReactionRequestFails ==
  resp.op \in {"addReaction", "removeReaction"} => resp.status # 200

----------------------------------------------------------------------------
(* Paging through the replies of a comment *)

\* bob's post 1 with alice's comments 2 and 3; comment 2 got the replies 4, 5
\* and 6 and comment 3 the replies 7 and 8, one every TickHours
InitReplies ==
  /\ users = [u \in Users |-> NewUser(u \in Admins)]
  /\ posts = (1 :> [NewPost("bob", TextOk, FALSE, {}, "public", 0)
                      EXCEPT !.commentCount = 7])
  /\ comments = (2 :> NewComment(1, "alice", NoId, TextOk, "public", 0))
             @@ (3 :> NewComment(1, "alice", NoId, TextOk, "public", 0))
             @@ (4 :> NewComment(1, "bob", 2, TextOk, "public", 0))
             @@ (5 :> NewComment(1, "alice", 2, TextOk, "public", TickHours))
             @@ (6 :> NewComment(1, "bob", 2, TextOk, "public", 2 * TickHours))
             @@ (7 :> NewComment(1, "bob", 3, TextOk, "public", 3 * TickHours))
             @@ (8 :> NewComment(1, "alice", 3, TextOk, "public", 4 * TickHours))
  /\ savedPosts = <<>>
  /\ notifications = <<>>
  /\ nextId = 9
  /\ now = 4 * TickHours
  /\ reqs = [r \in Slots |-> Idle]
  /\ started = 0
  /\ resp = NoResp
  /\ walk = NoWalk

\* a client asks for the first comments of a post or the first replies of a
\* comment, or passes the nextCursor of its last page back
NextReplies ==
  \E v \in Viewers, n \in Limits :
    \/ \E p \in Commented : \E c \in Cursors("comments", v, p, NoUser, <<>>, n) :
         getComments(v, p, c, n)
    \/ \E x \in Replied : \E c \in Cursors("replies", v, x, NoUser, <<>>, n) :
         getReplies(v, x, c, n)

SpecReplies == InitReplies /\ [][NextReplies]_vars

\* the public replies of comment x
PublicReplies(x) ==
  {c \in DOMAIN comments : comments[c].parentId = x /\ comments[c].visibility = "public"}

\* C18: paging through getReplies by passing each response's nextCursor, with
\* no concurrent mutation, never returns a reply that an earlier page already
\* returned, and has returned every public reply of the comment once hasMore
\* becomes false.
C18_RepliesExactlyOnce ==
  (walk.op = "replies" /\ walk.wasOpen) =>
    /\ \A c \in DOMAIN comments : Count(walk.seen, c) <= 1
    /\ Finished => \A c \in PublicReplies(walk.target) : Count(walk.seen, c) = 1

\* the first half alone: no reply comes twice while every earlier page said
\* there is more
C18_NoReplyTwice ==
  (walk.op = "replies" /\ walk.wasOpen) =>
    \A c \in DOMAIN comments : Count(walk.seen, c) <= 1

\* the second half alone: none is missing at the end
C18_NoReplyMissing ==
  (walk.op = "replies" /\ Finished) =>
    \A c \in PublicReplies(walk.target) : Count(walk.seen, c) >= 1

\* a first page holds the oldest replies, whatever the viewer or the page size
C18_FirstPageOldest ==
  (walk.op = "replies" /\ walk.pages = 1) =>
    \A i \in DOMAIN walk.page :
      \A c \in PublicReplies(walk.target) \ Range(walk.page) : walk.page[i] < c

----------------------------------------------------------------------------
(* Paging through the explore listing *)

\* five public posts, none filtered for anyone; the oldest, post 1, has the
\* highest engagement score and post 3 the next highest
InitExplore ==
  /\ users = [u \in Users |-> NewUser(u \in Admins)]
  /\ posts = (1 :> [NewPost("bob", TextOk, FALSE, {}, "public", 0)
                      EXCEPT !.commentCount = 3, !.engagementScore = 60000])
          @@ (2 :> NewPost("bob", TextTag, FALSE, {TagTv}, "public", 0))
          @@ (3 :> [NewPost("alice", TextTag, FALSE, {TagTv}, "public", 0)
                      EXCEPT !.commentCount = 1, !.engagementScore = 20000])
          @@ (4 :> NewPost("alice", TextOk, FALSE, {}, "public", 0))
          @@ (5 :> NewPost("bob", TextTag, FALSE, {TagTv}, "public", 0))
  /\ comments = <<>>
  /\ savedPosts = <<>>
  /\ notifications = <<>>
  /\ nextId = 6
  /\ now = 0
  /\ reqs = [r \in Slots |-> Idle]
  /\ started = 0
  /\ resp = NoResp
  /\ walk = NoWalk

\* the page sizes of the explore client
ExploreLimits == 1..(MaxLimit + 1)

\* a client asks for a first page of explore, of all posts or of one hashtag,
\* or passes the nextCursor of its last page back
NextExplore ==
  \E v \in Viewers, n \in ExploreLimits, category \in {<<>>, TagTv} :
    \E c \in Cursors("explore", v, NoId, NoUser, category, n) :
      getExploreContent(v, category, c, n)

SpecExplore == InitExplore /\ [][NextExplore]_vars

\* C19: paging through getExploreContent by passing each response's
\* nextCursor, with no concurrent mutation, never returns a post that an
\* earlier page already returned and never skips a post that matches the
\* query: every eligible post is returned on exactly one page.
C19_ExploreExactlyOnce ==
  (walk.op = "explore" /\ walk.clean /\ walk.wasOpen) =>
    /\ \A p \in walk.first : Count(walk.seen, p) <= 1
    /\ Finished => \A p \in Due : Count(walk.seen, p) = 1

\* the same for a client without account, whose pages no filter shortens
C19_AnonymousExploreExactlyOnce ==
  (walk.op = "explore" /\ walk.user = NoUser /\ walk.clean /\ walk.wasOpen) =>
    /\ \A p \in walk.first : Count(walk.seen, p) <= 1
    /\ Finished => \A p \in Due : Count(walk.seen, p) = 1

\* the first half alone: no post comes twice
C19_NoPostTwice ==
  (walk.op = "explore" /\ walk.clean /\ walk.wasOpen) =>
    \A p \in walk.first : Count(walk.seen, p) <= 1

----------------------------------------------------------------------------
(* hasMore of the post search *)

\* the posts the search for q matches
SearchMatching(q) ==
  {p \in DOMAIN posts :
     TextMatches(q, posts[p]) /\ IsPublic(posts[p]) /\ NotIn(NoUser, posts[p].userId)}

\* C20: for post search with page size n and offset from, with no concurrent
\* mutation, hasMore is true exactly when more than from + n posts match the
\* query, so a response with hasMore true is always followed by a non-empty
\* next page.
C20_SearchHasMoreExact ==
  /\ Listed({"search"}) =>
       (resp.hasMore <=> Cardinality(SearchMatching(resp.tag)) > resp.cursor + resp.limit)
  /\ (walk.op = "search" /\ walk.pages > 1 /\ walk.clean /\ walk.wasOpen) =>
       walk.page # <<>>

\* one direction holds: when more than from + n posts match, hasMore is true
C20_MoreImpliesHasMore ==
  Listed({"search"}) =>
    (Cardinality(SearchMatching(resp.tag)) > resp.cursor + resp.limit => resp.hasMore)

\* hasMore is true exactly when the page is full
C20_HasMoreIsFullPage ==
  Listed({"search"}) => (resp.hasMore <=> Len(resp.items) = resp.limit)

----------------------------------------------------------------------------
(* Progress of a client that pages while hasMore is true *)

\* the listings of posts that filter in memory after the query
FilteredListings == {"feed", "hashtag", "category", "userPosts"}

\* C21: a client that requests the feed (or the hashtag, category or
\* user-posts listing) with the previous nextCursor for as long as hasMore is
\* true eventually receives hasMore false: every response with hasMore true
\* carries a non-null nextCursor that lies strictly further down the list than
\* the cursor of the request, also when the viewer filter removed every item
\* of the page.
C21_HasMoreMovesCursor ==
  (Listed(FilteredListings) /\ resp.hasMore) =>
    /\ resp.nextCursor # NoId
    /\ resp.cursor # NoId => resp.nextCursor < resp.cursor

\* the same for the pages the viewer filter left an item of
C21_NonEmptyPageMovesCursor ==
  (Listed(FilteredListings) /\ resp.hasMore /\ resp.items # <<>>) =>
    /\ resp.nextCursor # NoId
    /\ resp.cursor # NoId => resp.nextCursor < resp.cursor

\* a client that followed hasMore and the cursor it was given is back on the
\* page it started with
PagingStartedOver ==
  /\ walk.op \in FilteredListings /\ walk.clean /\ walk.wasOpen /\ walk.pages > 2
  /\ walk.page # <<>>
  /\ Count(walk.seen, walk.page[1]) > 1

----------------------------------------------------------------------------
(* postController.savePost and unsavePost, await by await *)

\* user u has a SavedPost record of post p
HasSaved(u, p) ==
  \E s \in DOMAIN savedPosts : savedPosts[s].userId = u /\ savedPosts[s].postId = p

\* Post.findById(id) and the checks on its result
SavePostFind(u, p) ==
  /\ CanStart
  /\ IF p \notin DOMAIN posts THEN Reject("savePost", 404, u, p)
     ELSE IF posts[p].visibility # "public" THEN Reject("savePost", 403, u, p)
     ELSE Begin([Idle EXCEPT !.op = "savePost", !.pc = "existing", !.user = u,
                             !.target = p, !.postId = p])
  /\ UNCHANGED <<store, now>>

\* SavedPost.findOne({userId, postId})
SavePostExisting(r) ==
  /\ At(r, "savePost", "existing")
  /\ IF HasSaved(reqs[r].user, reqs[r].target)
       THEN Finish(r, 400)
       ELSE Continue(r, [reqs[r] EXCEPT !.pc = "create"])
  /\ UNCHANGED <<store, now>>

\* SavedPost.create: the unique index on (userId, postId) refuses a second
\* record, the error lands in the catch
SavePostCreate(r) ==
  /\ At(r, "savePost", "create")
  /\ IF HasSaved(reqs[r].user, reqs[r].target)
       THEN /\ Finish(r, 500)
            /\ UNCHANGED <<savedPosts, nextId>>
       ELSE /\ savedPosts' = Insert(savedPosts, nextId,
                                    NewSavedPost(reqs[r].user, reqs[r].target, now))
            /\ nextId' = nextId + 1
            /\ Continue(r, [reqs[r] EXCEPT !.pc = "count"])
  /\ UNCHANGED <<users, posts, comments, notifications, now>>

\* Post.findByIdAndUpdate(id, {$inc: {saveCount: 1}})
SavePostCount(r) ==
  /\ At(r, "savePost", "count")
  /\ posts' = IncField(posts, reqs[r].target, "saveCount", 1)
  /\ Finish(r, 200)
  /\ UNCHANGED <<users, comments, savedPosts, notifications, nextId, now>>

\* SavedPost.findOne({userId, postId})
UnsavePostFind(u, p) ==
  /\ CanStart
  /\ IF ~HasSaved(u, p) THEN Reject("unsavePost", 404, u, p)
     ELSE Begin([Idle EXCEPT !.op = "unsavePost", !.pc = "delete", !.user = u,
                             !.target = p, !.postId = p])
  /\ UNCHANGED <<store, now>>

\* SavedPost.deleteOne({userId, postId}): deletes what is there, if anything
UnsavePostDelete(r) ==
  /\ At(r, "unsavePost", "delete")
  /\ savedPosts' = [s \in {x \in DOMAIN savedPosts :
                             ~(/\ savedPosts[x].userId = reqs[r].user
                               /\ savedPosts[x].postId = reqs[r].target)}
                      |-> savedPosts[s]]
  /\ Continue(r, [reqs[r] EXCEPT !.pc = "count"])
  /\ UNCHANGED <<users, posts, comments, notifications, nextId, now>>

\* Post.findByIdAndUpdate(id, {$inc: {saveCount: -1}})
UnsavePostCount(r) ==
  /\ At(r, "unsavePost", "count")
  /\ posts' = IncField(posts, reqs[r].target, "saveCount", -1)
  /\ Finish(r, 200)
  /\ UNCHANGED <<users, comments, savedPosts, notifications, nextId, now>>

StepSave ==
  \E r \in Slots :
    \/ SavePostExisting(r)
    \/ SavePostCreate(r)
    \/ SavePostCount(r)
    \/ UnsavePostDelete(r)
    \/ UnsavePostCount(r)

NextSave ==
  \/ \E u \in Members, p \in ReqIds(posts) : SavePostFind(u, p) \/ UnsavePostFind(u, p)
  \/ StepSave

SpecSave == InitListing /\ [][NextSave]_vars

\* the SavedPost records that reference post p
SavedRecords(p) == {s \in DOMAIN savedPosts : savedPosts[s].postId = p}

\* C24: after any sequence or interleaving of savePost and unsavePost requests
\* (two concurrent requests of one user for one post included), when no
\* request is in flight the saveCount of every post is the number of SavedPost
\* records that reference it.
C24_SaveCountMatchesRecords ==
  NoneActive => \A p \in DOMAIN posts : posts[p].saveCount = Cardinality(SavedRecords(p))

\* the unique index holds: no user has two records of one post
C24_OneRecordPerUser ==
  \A s, t \in DOMAIN savedPosts :
    (savedPosts[s].userId = savedPosts[t].userId
       /\ savedPosts[s].postId = savedPosts[t].postId) => s = t

----------------------------------------------------------------------------
(* Writes on a post that is deleted meanwhile *)

\* postController.deletePost, await by await: Post.findById and the checks
DeletePostFind(u, p) ==
  /\ CanStart
  /\ IF p \notin DOMAIN posts THEN Reject("deletePost", 404, u, p)
     ELSE IF posts[p].userId # u /\ ~users[u].isAdmin THEN Reject("deletePost", 403, u, p)
     ELSE Begin([Idle EXCEPT !.op = "deletePost", !.pc = "save", !.user = u,
                             !.target = p, !.postId = p])
  /\ UNCHANGED <<store, now>>

\* post.visibility = 'deleted'; post.save() writes the modified path
DeletePostSave(r) ==
  /\ At(r, "deletePost", "save")
  /\ posts' = [posts EXCEPT ![reqs[r].target].visibility = "deleted"]
  /\ Continue(r, [reqs[r] EXCEPT !.pc = "metrics"])
  /\ UNCHANGED <<users, comments, savedPosts, notifications, nextId, now>>

\* User.findByIdAndUpdate(user._id, {$inc: {totalPosts: -1}})
DeletePostMetrics(r) ==
  /\ At(r, "deletePost", "metrics")
  /\ users' = IncField(users, reqs[r].user, "totalPosts", -1)
  /\ Finish(r, 200)
  /\ UNCHANGED <<posts, comments, savedPosts, notifications, nextId, now>>

\* a request that writes on a post, or deletes one, starts
StartRace ==
  \/ \E u \in Members, p \in DOMAIN posts :
       \/ \E k \in ReqKinds : AddReactionFind(u, p, k)
       \/ AddCommentFind(u, p, TextOk)
       \/ SavePostFind(u, p)
       \/ DeletePostFind(u, p)
  \/ \E u \in Members, c \in DOMAIN comments : AddReplyFind(u, c, TextOk)

StepRace ==
  \E r \in Slots :
    \/ AddReactionUpdate(r)
    \/ AddReactionMetrics(r)
    \/ AddReactionLoad(r)
    \/ AddReactionSave(r)
    \/ AddReplyPost(r)
    \/ AddReplyCreate(r)
    \/ AddReplyCount(r)
    \/ AddReplyMetrics(r)
    \/ AddReplyLoad(r)
    \/ AddReplySave(r)
    \/ SavePostExisting(r)
    \/ SavePostCreate(r)
    \/ SavePostCount(r)
    \/ DeletePostSave(r)
    \/ DeletePostMetrics(r)
    \/ Notify(r)

NextRace == StartRace \/ StepAddComment \/ StepRace

SpecRace == InitEngage /\ [][NextRace]_vars

\* this step records a reaction, a comment, a reply or a save on post p
Recorded(p) ==
  \/ \E k \in Kinds : posts'[p].reactions[k] > posts[p].reactions[k]
  \/ posts'[p].commentCount > posts[p].commentCount
  \/ posts'[p].saveCount > posts[p].saveCount
  \/ \E c \in DOMAIN comments' \ DOMAIN comments : comments'[c].postId = p
  \/ \E x \in DOMAIN savedPosts' \ DOMAIN savedPosts : savedPosts'[x].postId = p

\* C22: no reaction, comment, reply or save is recorded on a post that is not
\* public: under any interleaving of addReaction, addComment, addReply or
\* savePost with deletePost of the same post, every step that applies such a
\* write finds the post public.
C22_WritesOnlyOnPublic ==
  [][\A p \in DOMAIN posts : Recorded(p) => posts[p].visibility = "public"]_vars

\* the handlers check when they start: a request that arrives after the post
\* was deleted is refused
C22_RefusedAfterDelete ==
  (/\ resp.op \in {"addReaction", "addComment", "savePost"}
   /\ resp.alone /\ resp.status \in {200, 201}
   /\ resp.target \in DOMAIN posts) =>
    posts[resp.target].visibility = "public"

----------------------------------------------------------------------------
(* One reaction of a kind per user *)

\* no user id occurs twice in a reactionUsers list of the document
NoReactorTwice(doc) ==
  \A k \in Kinds : \A u \in Users : Count(doc.reactionUsers[k], u) <= 1

\* C23: a user holds at most one reaction of each kind on an item: in every
\* reachable state, also under concurrent addReaction requests of one user for
\* one kind, no user id occurs more than once in any reactionUsers[kind] list
\* of a post or comment.
C23_OneReactionPerKind ==
  /\ \A p \in DOMAIN posts : NoReactorTwice(posts[p])
  /\ \A c \in DOMAIN comments : NoReactorTwice(comments[c])

----------------------------------------------------------------------------
(* authController.getRecoveryPin and resetPassword *)

\* crypto.createHash('sha256').update(pin).digest('hex'): one digest per PIN
Sha256(pin) == <<"sha256", pin>>

\* the recovery PINs Math.random() may yield, the passwords a client sends
Pins == {1, 2, 3}
Passwords == {"pw1", "pw2"}

\* hours after which resetPassword calls a PIN expired
PinLifeHours == 24

\* an element of accountRecoveryTokens
NewRecoveryToken(pin, t) == [token |-> Sha256(pin), createdAt |-> t, used |-> FALSE]

\* the user document with the fields of account recovery
NewAccount(isAdmin, password, tokens) ==
  NewUser(isAdmin) @@ [passwordHash |-> password, accountRecoveryTokens |-> tokens]

\* alice asked for a PIN long ago (PIN 3, now expired) and again just now (PIN 1)
InitAuth ==
  /\ users = [u \in Users |->
               IF u = "alice"
                 THEN NewAccount(FALSE, "pw0",
                                 <<NewRecoveryToken(3, 0),
                                   NewRecoveryToken(1, 3 * TickHours)>>)
                 ELSE NewAccount(u \in Admins, "pw0", <<>>)]
  /\ posts = <<>>
  /\ comments = <<>>
  /\ savedPosts = <<>>
  /\ notifications = <<>>
  /\ nextId = 1
  /\ now = 3 * TickHours
  /\ reqs = [r \in Slots |-> Idle]
  /\ started = 0
  /\ resp = NoResp
  /\ walk = NoWalk

\* authController.getRecoveryPin for the account of u; pin is what
\* Math.random() gave
getRecoveryPin(u, pin) ==
  /\ Settle("getRecoveryPin", 200, u, pin)
  /\ users' = [users EXCEPT
                 ![u].accountRecoveryTokens = Append(@, NewRecoveryToken(pin, now))]
  /\ UNCHANGED <<posts, comments, savedPosts, notifications, nextId, walk>>

\* User.findOne({'accountRecoveryTokens.token': pinHash,
\*               'accountRecoveryTokens.used': false}):
\* each condition on the array holds when some element meets it
HoldsTokenAndUnused(u, pinHash) ==
  /\ \E i \in DOMAIN users[u].accountRecoveryTokens :
       users[u].accountRecoveryTokens[i].token = pinHash
  /\ \E i \in DOMAIN users[u].accountRecoveryTokens :
       ~users[u].accountRecoveryTokens[i].used

\* user.accountRecoveryTokens.find(t => t.token === pinHash): the first one
FirstToken(u, pinHash) ==
  CHOOSE i \in DOMAIN users[u].accountRecoveryTokens :
    /\ users[u].accountRecoveryTokens[i].token = pinHash
    /\ \A j \in 1..(i - 1) : users[u].accountRecoveryTokens[j].token # pinHash

\* authController.resetPassword; findOne answers with one of the matching users
resetPassword(pin, newPassword) ==
  LET pinHash == Sha256(pin)
      found == {u \in Users : HoldsTokenAndUnused(u, pinHash)}
  IN IF found = {}
       THEN Settle("resetPassword", 400, NoUser, pin) /\ UNCHANGED <<store, walk>>
     ELSE \E u \in found :
       LET i == FirstToken(u, pinHash)
           tokenAge == now - users[u].accountRecoveryTokens[i].createdAt
       IN IF tokenAge > PinLifeHours
            THEN Settle("resetPassword", 400, u, pin) /\ UNCHANGED <<store, walk>>
            ELSE /\ Settle("resetPassword", 200, u, pin)
                 /\ users' = [users EXCEPT ![u].accountRecoveryTokens[i].used = TRUE,
                                           ![u].passwordHash = newPassword]
                 /\ UNCHANGED <<posts, comments, savedPosts, notifications, nextId, walk>>

NextAuth ==
  \/ \E u \in Members, pin \in Pins : getRecoveryPin(u, pin)
  \/ \E pin \in Pins, newPassword \in Passwords : resetPassword(pin, newPassword)

SpecAuth == InitAuth /\ [][NextAuth]_vars

\* some account holds a token of the PIN that was not used yet
UnusedTokenOf(pin) ==
  \E u \in Users : \E i \in DOMAIN users[u].accountRecoveryTokens :
    /\ users[u].accountRecoveryTokens[i].token = Sha256(pin)
    /\ ~users[u].accountRecoveryTokens[i].used

\* C28: a recovery PIN that has been used for one successful resetPassword is
\* rejected by every later resetPassword request, whatever other recovery
\* tokens the account holds: a resetPassword succeeds only while some token of
\* its PIN is unused.
C28_UsedPinRejected ==
  [][(resp'.op = "resetPassword" /\ resp'.status = 200) => UnusedTokenOf(resp'.target)]_vars

\* with no token of the PIN at all, or with every token of the account used,
\* the request is rejected
C28_UnknownPinRejected ==
  [][(/\ resp'.op = "resetPassword" /\ resp'.status = 200)
       => \E u \in Users :
            /\ \E i \in DOMAIN users[u].accountRecoveryTokens :
                 users[u].accountRecoveryTokens[i].token = Sha256(resp'.target)
            /\ \E i \in DOMAIN users[u].accountRecoveryTokens :
                 ~users[u].accountRecoveryTokens[i].used]_vars

----------------------------------------------------------------------------
(* Notification preferences *)

\* the keys updatePreferences accepts
validPreferences == {"reactions", "comments", "mentions", "system"}

\* notificationController.updatePreferences with one key in the body
updatePreferences(u, key, value) ==
  IF key \notin validPreferences
    THEN Settle("updatePreferences", 400, u, NoId) /\ UNCHANGED <<store, walk>>
    ELSE /\ Settle("updatePreferences", 200, u, NoId)
         /\ users' = [users EXCEPT ![u].notificationPreferences[key] = value]
         /\ UNCHANGED <<posts, comments, savedPosts, notifications, nextId, walk>>

\* the requests that raise notifications, and the changes of preference
NextNotify ==
  \/ \E u \in Members, key \in validPreferences \cup {"replies"} :
       updatePreferences(u, key, FALSE)
  \/ \E u \in Members, p \in DOMAIN posts :
       \/ \E k \in ReqKinds : AddReactionFind(u, p, k)
       \/ AddCommentFind(u, p, TextOk)
  \/ \E r \in Slots :
       \/ AddReactionUpdate(r)
       \/ AddReactionMetrics(r)
       \/ AddReactionLoad(r)
       \/ AddReactionSave(r)
       \/ Notify(r)
  \/ StepAddComment
  \/ \E u \in Members : createPost(u, TextTag, FALSE)
  \/ \E a \in Admins, p \in DOMAIN posts, x \in {"flag", "remove"} : moderatePost(a, p, x)

SpecNotify == InitEngage /\ [][NextNotify]_vars

\* the preference that stands for a type of notification
KindOf(type) ==
  CASE type = "reaction" -> "reactions"
    [] type = "comment" -> "comments"
    [] type = "mention" -> "mentions"
    [] OTHER -> "system"

\* this step creates a notification of one of the types for a user whose
\* preference for its kind is false
CreatedAgainstPreference(types) ==
  \E n \in DOMAIN notifications' \ DOMAIN notifications :
    /\ notifications'[n].type \in types
    /\ ~users[notifications'[n].userId].notificationPreferences[KindOf(notifications'[n].type)]

\* C29: while a user's notification preference for a kind (reactions,
\* comments, mentions, system) is false, no notification of the corresponding
\* type is created for that user, whichever code path raises it.
C29_PreferenceRespected ==
  [][~CreatedAgainstPreference({"reaction", "comment", "mention", "system"})]_vars

\* the same for the reaction, comment and mention notifications alone
C29_UserKindsRespected ==
  [][~CreatedAgainstPreference({"reaction", "comment", "mention"})]_vars

----------------------------------------------------------------------------
(* commentCount and the comments of a post *)

\* addComment, addReply and deleteComment, one request at a time
NextCount ==
  \/ NoneActive /\ \E u \in Members, t \in {TextOk, TextBlank} :
       \/ \E p \in ReqIds(posts) : AddCommentFind(u, p, t)
       \/ \E c \in ReqIds(comments) : AddReplyFind(u, c, t)
  \/ NoneActive /\ \E u \in Users, c \in ReqIds(comments) : DeleteCommentFind(u, c)
  \/ StepAddComment
  \/ \E r \in Slots :
       \/ AddReplyPost(r)
       \/ AddReplyCreate(r)
       \/ AddReplyCount(r)
       \/ AddReplyMetrics(r)
       \/ AddReplyLoad(r)
       \/ AddReplySave(r)
       \/ DeleteCommentSave(r)
       \/ DeleteCommentCount(r)
       \/ DeleteCommentMetrics(r)
       \/ DeleteCommentLoad(r)
       \/ DeleteCommentScore(r)
       \/ Notify(r)

SpecCount == InitEngage /\ [][NextCount]_vars

\* the comments and replies of post p that are not deleted
LiveComments(p) ==
  {c \in DOMAIN comments : comments[c].postId = p /\ comments[c].visibility # "deleted"}

\* C25: after any sequence of addComment, addReply and deleteComment requests
\* (deleteComment repeated on one comment included), the commentCount of a
\* post is the number of its comments and replies whose visibility is not
\* deleted.
C25_CommentCountMatches ==
  NoneActive => \A p \in DOMAIN posts : posts[p].commentCount = Cardinality(LiveComments(p))

\* the counter never exceeds that number
C25_CommentCountAtMost ==
  NoneActive => \A p \in DOMAIN posts : posts[p].commentCount <= Cardinality(LiveComments(p))

----------------------------------------------------------------------------
(* Deleted posts under moderation *)

\* C26: once deletePost has set a post's visibility to deleted, the post never
\* becomes public again, and so is never again returned by a listing, whatever
\* moderation actions (flag, remove, restore) are applied to it afterwards: no
\* step takes a deleted post to public.
C26_DeletedStaysHidden ==
  [][\A p \in DOMAIN posts :
       posts[p].visibility = "deleted" => posts'[p].visibility # "public"]_vars

\* a deleted post changes its visibility by a moderation action alone
C26_OnlyModerationRevives ==
  [][\A p \in DOMAIN posts :
       (posts[p].visibility = "deleted" /\ posts'[p].visibility # "deleted")
         => resp'.op = "moderatePost" /\ resp'.target = p]_vars

\* flag leaves a deleted post deleted
C26_FlagKeepsDeleted ==
  [][\A p \in DOMAIN posts :
       (/\ posts[p].visibility = "deleted"
        /\ posts'[p].contentWarning /\ ~posts[p].contentWarning)
         => posts'[p].visibility = "deleted"]_vars

----------------------------------------------------------------------------
(* What a failed request leaves behind *)

\* the requests of the claim
WritingOps == {"addReaction", "removeReaction", "addComment", "addReply"}

\* the first request of the behaviour was one of WritingOps and has just
\* answered with an error
FirstRequestFailed ==
  /\ started = 1 /\ NoneActive
  /\ resp.op \in WritingOps
  /\ resp.status >= 400

\* users, posts and comments are what they were before the first request
StoreAsAtStart ==
  /\ users = [u \in Users |->
               IF u = "bob" THEN [NewUser(FALSE) EXCEPT !.totalComments = 1]
               ELSE IF u = "alice" THEN [NewUser(FALSE) EXCEPT !.totalPosts = 1]
               ELSE NewUser(TRUE)]
  /\ posts = (1 :> [NewPost("alice", TextOk, FALSE, {}, "public", 0) EXCEPT
                      !.commentCount = 1, !.engagementScore = 20000])
  /\ comments = (2 :> NewComment(1, "bob", NoId, TextOk, "public", 0))

\* C27: if addReaction, removeReaction, addComment or addReply ends with an
\* error response, none of the writes of that request persists: the post's
\* counters, reactor sets and engagement score, the users' activity metrics and
\* the set of comment documents are the same as before the request.
C27_FailedRequestWritesNothing ==
  FirstRequestFailed => StoreAsAtStart

\* an error answered from the checks at the start of the handler (4xx) comes
\* before every write
C27_RejectedWritesNothing ==
  (FirstRequestFailed /\ resp.status < 500) => StoreAsAtStart

----------------------------------------------------------------------------
(* The list of blocked users *)

\* the usernames a client names: those of the users and one nobody has
Usernames == Users \cup {"ghost"}

NextBlock ==
  \E u \in Users, v \in Usernames : blockUser(u, v) \/ unblockUser(u, v)

SpecBlock == InitListing /\ [][NextBlock]_vars

\* the list holds no id twice and not the user's own id
WellFormedBlockList(u) ==
  /\ \A v \in Users : Count(users[u].blockedUsers, v) <= 1
  /\ ~Contains(users[u].blockedUsers, u)

\* this step answers request op of user u with status
Answers(op, u, status) ==
  resp'.op = op /\ resp'.user = u /\ resp'.status = status

\* C30: after any sequence of blockUser and unblockUser requests by a user,
\* that user's blockedUsers list contains no id twice and never the user's own
\* id; blockUser on oneself or on an already-blocked user, and unblockUser on
\* a user who is not in the list, return 400 and leave the list unchanged: a
\* request that changes the list is a blockUser of another user who was not in
\* it, or an unblockUser of a user who was, and every 400 and 404 leaves the
\* users as they are.
C30_BlockListWellFormed ==
  /\ [](\A u \in Users : WellFormedBlockList(u))
  /\ [][\A u \in Users :
          /\ Answers("blockUser", u, 200) =>
               \E v \in Users \ {u} :
                 /\ ~Blocks(u, v)
                 /\ users' = [users EXCEPT ![u].blockedUsers = Append(@, v)]
          /\ Answers("unblockUser", u, 200) =>
               \E v \in Users :
                 /\ Blocks(u, v)
                 /\ users' = [users EXCEPT ![u].blockedUsers = Pull(@, v)]
          /\ (\/ Answers("blockUser", u, 400) \/ Answers("unblockUser", u, 400)
              \/ Answers("blockUser", u, 404) \/ Answers("unblockUser", u, 404))
               => users' = users]_vars

\* a user who blocks someone was told 400 for a further blockUser
BlockRefused ==
  /\ resp.op = "blockUser" /\ resp.status = 400
  /\ resp.user \in Users
  /\ users[resp.user].blockedUsers # <<>>

====
